---- MODULE Spec2Model ----
(***************************************************************************)
(* State-machine model of the skysnoop backend abstraction layer: the      *)
(* backend selector, the two backend adapters (ReAPIAdapter and            *)
(* OpenAPIAdapter) with the HTTP clients they wrap, and the SkySnoop       *)
(* facade with its scoped adapter lifecycle.                               *)
(*                                                                         *)
(* Conventions                                                             *)
(*   - A Python Optional value is a sequence of length 0 (None) or 1.      *)
(*   - Coordinates are integers counting half degrees, so that the box     *)
(*     centre (a + b) / 2 of two whole-degree bounds is exact.             *)
(*   - Radii given by callers are integers counting tenths of a nautical   *)
(*     mile; int(radius) truncates toward zero.                            *)
(*   - Real-valued trigonometry is fixed point with FScale units per 1.    *)
(***************************************************************************)
EXTENDS Integers, Sequences, FiniteSets, TLC

(***************************************************************************)
(* Python values                                                           *)
(***************************************************************************)
None == << >>
Some(v) == << v >>
IsNone(o) == o = None
Val(o) == o[1]

\* truth value of an Optional[str]: None and "" are falsy
StrTruthy(o) == IF IsNone(o) THEN FALSE ELSE Len(Val(o)) > 0

\* int(x) for x counted in 1/scale units: truncation toward zero
IntTrunc(x, scale) == IF x >= 0 THEN x \div scale ELSE -((-x) \div scale)

Abs(x) == IF x >= 0 THEN x ELSE -x

(***************************************************************************)
(* Fixed-point arithmetic for the haversine formula                        *)
(***************************************************************************)
FScale == 100000000
FLimb == 10000
FPi == 314159265
FHalfPi == 157079633

\* x * y / FScale for fixed-point x, y, split in limbs to stay in 32 bits
FMulAbs(x, y) ==
    LET xh == x \div FLimb
        xl == x % FLimb
        yh == y \div FLimb
        yl == y % FLimb
    IN  xh * yh + (xh * yl + xl * yh) \div FLimb + (xl * yl) \div FScale

FMul(x, y) ==
    IF (x >= 0) = (y >= 0) THEN FMulAbs(Abs(x), Abs(y))
    ELSE -FMulAbs(Abs(x), Abs(y))

\* math.radians of an angle counted in quarter degrees: q * pi / 720
RadQ(q) ==
    LET m == Abs(q)
        r == m * 436332 + (m * 313) \div 1000
    IN  IF q >= 0 THEN r ELSE -r

RECURSIVE TaylorSum(_, _, _, _)
\* sum of the series whose current term is t and whose next term is
\* -t * x2 / (k * (k + 1))
TaylorSum(t, x2, k, n) ==
    IF n = 0 \/ t = 0 THEN 0
    ELSE t + TaylorSum(-(FMul(t, x2) \div (k * (k + 1))), x2, k + 2, n - 1)

TaylorTerms == 12

\* sine and cosine of x in [0, pi/2]
SinQ1(x) == TaylorSum(x, FMul(x, x), 2, TaylorTerms)
CosQ1(x) == TaylorSum(FScale, FMul(x, x), 1, TaylorTerms)

\* math.sin and math.cos for x in [-pi, pi]
SinAbs(m) == IF m <= FHalfPi THEN SinQ1(m) ELSE SinQ1(FPi - m)
Sin(x) == IF x >= 0 THEN SinAbs(x) ELSE -SinAbs(-x)

CosAbs(m) == IF m <= FHalfPi THEN CosQ1(m) ELSE -CosQ1(FPi - m)
Cos(x) == CosAbs(Abs(x))

RECURSIVE SqrtBisect(_, _, _)
SqrtBisect(a, lo, hi) ==
    IF hi - lo <= 1 THEN lo
    ELSE LET mid == (lo + hi) \div 2
         IN  IF FMul(mid, mid) <= a THEN SqrtBisect(a, mid, hi)
             ELSE SqrtBisect(a, lo, mid)

\* math.sqrt for a in [0, 1]
Sqrt(a) == IF a >= FScale THEN FScale ELSE SqrtBisect(a, 0, FScale)

RECURSIVE AtanBisect(_, _, _, _)
AtanBisect(y, x, lo, hi) ==
    IF hi - lo <= 1 THEN lo
    ELSE LET mid == (lo + hi) \div 2
         IN  IF FMul(Sin(mid), x) <= FMul(Cos(mid), y)
             THEN AtanBisect(y, x, mid, hi)
             ELSE AtanBisect(y, x, lo, mid)

\* math.atan2(y, x) for y >= 0, x >= 0: the angle in [0, pi/2] of (x, y)
Atan2(y, x) ==
    IF y = 0 THEN 0
    ELSE IF x = 0 THEN FHalfPi
    ELSE AtanBisect(y, x, 0, FHalfPi)

\* Earth radius 3440.065 NM, counted in thousandths of a nautical mile
EarthRadiusMilliNM == 3440065

\* OpenAPIAdapter._calculate_haversine_distance: arguments in half degrees,
\* result in thousandths of a nautical mile
\*     a = sin(dlat/2)**2 + cos(lat1) * cos(lat2) * sin(dlon/2)**2
\*     c = 2 * atan2(sqrt(a), sqrt(1 - a));  return R * c
HaversineA(sin_half_dlat, sin_half_dlon, cos_lat1, cos_lat2) ==
    FMul(sin_half_dlat, sin_half_dlat)
    + FMul(FMul(cos_lat1, cos_lat2), FMul(sin_half_dlon, sin_half_dlon))
HaversineC(a) == 2 * Atan2(Sqrt(a), Sqrt(FScale - a))
Haversine(lat1, lon1, lat2, lon2) ==
    FMul(HaversineC(HaversineA(Sin(RadQ(lat2 - lat1)), Sin(RadQ(lon2 - lon1)),
                               Cos(RadQ(2 * lat1)), Cos(RadQ(2 * lat2)))),
         EarthRadiusMilliNM)

(***************************************************************************)
(* Strings that the code takes apart or formats are sequences of tokens;   *)
(* a token is "/" or a chunk without a slash.                              *)
(***************************************************************************)
RECURSIVE rstrip(_)
\* str.rstrip("/")
rstrip(s) ==
    IF Len(s) > 0 /\ s[Len(s)] = "/" THEN rstrip(SubSeq(s, 1, Len(s) - 1))
    ELSE s

\* repr of a float that counts half degrees: "37.0", "-122.5"
HdStr(h) ==
    (IF h < 0 THEN "-" ELSE "") \o ToString(Abs(h) \div 2)
        \o (IF Abs(h) % 2 = 0 THEN ".0" ELSE ".5")

\* repr of a float that counts tenths: "50.0", "0.5"
TenthStr(r) ==
    (IF r < 0 THEN "-" ELSE "") \o ToString(Abs(r) \div 10) \o "."
        \o ToString(Abs(r) % 10)

\* repr of a float timeout given in whole seconds: "30.0"
SecStr(t) == ToString(t) \o ".0"

(***************************************************************************)
(* Outcomes of a call: a returned value or a raised exception              *)
(***************************************************************************)
Return(v) == [ok |-> TRUE, kind |-> "", msg |-> "", attr |-> None, value |-> Some(v)]
Raise(k, m) == [ok |-> FALSE, kind |-> k, msg |-> m, attr |-> None, value |-> None]
RaiseWith(k, m, a) == [ok |-> FALSE, kind |-> k, msg |-> m, attr |-> Some(a), value |-> None]

NotInitializedMsg == "Client not initialized. Use 'async with' context manager."

(***************************************************************************)
(* What the HTTP transport hands back for one request                      *)
(*   net    "ok" | "timeout" | "error"   (httpx.TimeoutException,          *)
(*                                        httpx.RequestError)              *)
(*   status the response status code                                       *)
(*   body   "object" | "nonobject" | "notjson"  what response.json() gives *)
(*   valid  whether the JSON object validates against the envelope model   *)
(*   data   the envelope (an Optional), present when valid                 *)
(*   text   response.text                                                  *)
(*   retry  the Retry-After header, when present                           *)
(***************************************************************************)
HttpReply(st, b, v, d, t, r) ==
    [net |-> "ok", status |-> st, body |-> b, valid |-> v, data |-> d,
     text |-> t, retry |-> r]
OkReply(d) == HttpReply(200, "object", TRUE, Some(d), "{}", None)
NetReply(n) ==
    [net |-> n, status |-> 0, body |-> "notjson", valid |-> FALSE,
     data |-> None, text |-> "", retry |-> None]

ErrorReplies ==
    { NetReply("timeout"), NetReply("error"),
      HttpReply(401, "object", FALSE, None, "denied", None),
      HttpReply(404, "notjson", FALSE, None, "missing", None),
      HttpReply(422, "object", FALSE, None, "{detail}", None),
      HttpReply(422, "notjson", FALSE, None, "bad", None),
      HttpReply(422, "nonobject", FALSE, None, "[]", None),
      HttpReply(429, "notjson", FALSE, None, "slow", None),
      HttpReply(429, "notjson", FALSE, None, "slow", Some("7")),
      HttpReply(429, "notjson", FALSE, None, "slow", Some("soon")),
      HttpReply(500, "notjson", FALSE, None, "oops", None),
      HttpReply(200, "notjson", FALSE, None, "<html>", None),
      HttpReply(200, "nonobject", FALSE, None, "[]", None),
      HttpReply(200, "object", FALSE, None, "{}", None) }

\* int(header) for the Retry-After values above: ValueError gives None
ParseRetryAfter(h) ==
    IF IsNone(h) THEN None
    ELSE IF Val(h) = "7" THEN Some(7)
    ELSE None

\* the per-field problem list of a 422 body
ValidationDetail == << "loc: lat" >>

(***************************************************************************)
(* Filter Criteria (QueryFilters).  An instance is always truthy: the      *)
(* class defines neither __bool__ nor __len__, so "if filters:" tests for  *)
(* None.                                                                   *)
(***************************************************************************)
FiltersTruthy(filters) == ~IsNone(filters)

(***************************************************************************)
(* Unified records                                                         *)
(***************************************************************************)
\* OpenAPIAdapter._convert_aircraft: V2ResponseAcItem to Aircraft
_convert_aircraft(v2_aircraft) ==
    [hex |-> v2_aircraft.hex,
     registration |-> v2_aircraft.r,
     type |-> v2_aircraft.t,
     lat |-> v2_aircraft.lat,
     lon |-> v2_aircraft.lon]

\* _convert_v2_response carrying the other adapter's identifier
_convert_v2_response_labelled_reapi(v2_response, simulated) ==
    [timestamp |-> v2_response.now,
     result_count |-> v2_response.total,
     processing_time |-> None,
     aircraft |-> [i \in 1..Len(v2_response.ac) |->
                      _convert_aircraft(v2_response.ac[i])],
     backend |-> "reapi",
     simulated |-> simulated]

\* OpenAPIAdapter._convert_v2_response
_convert_v2_response(v2_response, simulated) ==
    [timestamp |-> v2_response.now,
     result_count |-> v2_response.total,
     processing_time |-> None,
     aircraft |-> [i \in 1..Len(v2_response.ac) |->
                      _convert_aircraft(v2_response.ac[i])],
     backend |-> "openapi",
     simulated |-> simulated]

\* an aircraft that reports a position
HasPosition(aircraft) == ~IsNone(aircraft.lat) /\ ~IsNone(aircraft.lon)

\* _convert_api_response keeping only the aircraft that report a position
_convert_api_response_positions_only(api_response, simulated) ==
    [timestamp |-> api_response.now,
     result_count |-> api_response.resultCount,
     processing_time |-> Some(api_response.ptime),
     aircraft |-> SelectSeq(api_response.aircraft, HasPosition),
     backend |-> "reapi",
     simulated |-> simulated]

\* ReAPIAdapter._convert_api_response
_convert_api_response(api_response, simulated) ==
    [timestamp |-> api_response.now,
     result_count |-> api_response.resultCount,
     processing_time |-> Some(api_response.ptime),
     aircraft |-> api_response.aircraft,
     backend |-> "reapi",
     simulated |-> simulated]

(***************************************************************************)
(* Geo math of the box simulation                                          *)
(***************************************************************************)
\* _is_in_box with the northern boundary taken as exclusive
_is_in_box_exclusive_north(aircraft, lat_south, lat_north, lon_west, lon_east) ==
    IF IsNone(aircraft.lat) \/ IsNone(aircraft.lon) THEN FALSE
    ELSE IF ~(lat_south <= Val(aircraft.lat) /\ Val(aircraft.lat) < lat_north)
    THEN FALSE
    ELSE IF lon_west <= lon_east
    THEN lon_west <= Val(aircraft.lon) /\ Val(aircraft.lon) <= lon_east
    ELSE Val(aircraft.lon) >= lon_west \/ Val(aircraft.lon) <= lon_east

\* OpenAPIAdapter._is_in_box
_is_in_box(aircraft, lat_south, lat_north, lon_west, lon_east) ==
    IF IsNone(aircraft.lat) \/ IsNone(aircraft.lon) THEN FALSE
    ELSE IF ~(lat_south <= Val(aircraft.lat) /\ Val(aircraft.lat) <= lat_north)
    THEN FALSE
    ELSE IF lon_west <= lon_east
    THEN lon_west <= Val(aircraft.lon) /\ Val(aircraft.lon) <= lon_east
    ELSE Val(aircraft.lon) >= lon_west \/ Val(aircraft.lon) <= lon_east

\* the filtering loop with its test left out: every aircraft is kept
FilterBoxKeepingAll(ac, box) ==
    [i \in 1..Len(ac) |-> _convert_aircraft(ac[i])]

RECURSIVE FilterBox(_, _)
\* the filtering loop of get_in_box: keeps, in order, the converted
\* aircraft that _is_in_box accepts
FilterBox(ac, box) ==
    IF ac = << >> THEN << >>
    ELSE (IF _is_in_box(Head(ac), box.lat_south, box.lat_north,
                        box.lon_west, box.lon_east)
          THEN << _convert_aircraft(Head(ac)) >> ELSE << >>)
         \o FilterBox(Tail(ac), box)

\* centre of the bounding circle (whole-degree bounds, half-degree result)
CenterLat(box) == (box.lat_south + box.lat_north) \div 2
CenterLon(box) == (box.lon_west + box.lon_east) \div 2

\* radius = haversine(centre, north-east corner) * 1.1, in 1/10000 NM
CornerDistance(box) ==
    Haversine(CenterLat(box), CenterLon(box), box.lat_north, box.lon_east) * 11

Box(s, n, w, e) == [lat_south |-> s, lat_north |-> n, lon_west |-> w, lon_east |-> e]
\* the boxes callers ask for (whole degrees, written in half degrees): an
\* ordinary box, two boxes across the antimeridian, a single point, a box
\* whose south bound exceeds its north bound, a box with the 15N 35E
\* point on its north-east corner, and a box from the equator to 80N
Boxes ==
    { Box(20, 40, 60, 80), Box(20, 40, 340, -340), Box(30, 30, 70, 70),
      Box(30, 40, 350, -350), Box(40, 20, 60, 80), Box(20, 30, 60, 70),
      Box(0, 160, 0, 160) }

\* CornerDistance tabulated over Boxes, so that it is computed once per box
CornerDistances == [b \in Boxes |-> CornerDistance(b)]
RadiusOfBox(box) ==
    IF box \in Boxes THEN CornerDistances[box] ELSE CornerDistance(box)
BoundingRadius(a) ==
    RadiusOfBox(Box(a.lat_south, a.lat_north, a.lon_west, a.lon_east))

\* the four corners of a box
BoxCorners(box) ==
    { << box.lat_north, box.lon_east >>, << box.lat_north, box.lon_west >>,
      << box.lat_south, box.lon_east >>, << box.lat_south, box.lon_west >> }
\* distance from the centre of the bounding circle to each corner of the
\* box, in thousandths of a nautical mile, tabulated over Boxes
CornerReach ==
    [b \in Boxes |->
        [c \in BoxCorners(b) |-> Haversine(CenterLat(b), CenterLon(b), c[1], c[2])]]

(***************************************************************************)
(* Backend B transport: OpenAPIClient and its V2Methods                    *)
(*   a client is [base_url, timeout, api_key, conn]; conn is "none" while  *)
(*   its httpx client reference is None and "open" while it holds one      *)
(***************************************************************************)
OpenAPIDefaultUrl == << "https:", "/", "/", "api.adsb.lol" >>
ReAPIDefaultUrl == << "https:", "/", "/", "re-api.adsb.lol" >>

\* OpenAPIClient.__init__
OpenAPIClient_init(api_key, base_url, timeout, env_key) ==
    [base_url |-> rstrip(base_url),
     timeout |-> timeout,
     api_key |-> IF StrTruthy(api_key) THEN api_key ELSE env_key,
     conn |-> "none"]

\* the headers OpenAPIClient.__aenter__ gives its httpx client
OpenAPIAuth(client) ==
    IF StrTruthy(client.api_key) THEN Some("Bearer " \o Val(client.api_key))
    ELSE None

TimeoutMsg(timeout) == "Request timed out after " \o SecStr(timeout) \o " seconds"

\* a timeout caught by the handler of httpx.RequestError, its base class
TimedOutAsRequestError(timeout) == Raise("APIError", "API request failed: timeout")

\* except httpx.TimeoutException: raise ADSBTimeoutError(...)
TimedOut(timeout) == Raise("TimeoutError", TimeoutMsg(timeout))

\* the request sent once more when the transport failed
SentAgainOnFailure(request, reply) ==
    IF reply.net # "ok" THEN << request, request >> ELSE << request >>

\* response = await self._client.get(url): the requests that go out
Sent(request, reply) == << request >>
StatusMsg(reply) ==
    "API request failed with status " \o ToString(reply.status) \o ": " \o reply.text

\* _request without "if not self._client: raise RuntimeError(...)": the
\* call of get on None raises AttributeError, which no handler catches
OpenAPIClient_request_unguarded(client, path, reply) ==
    IF client.conn = "none"
    THEN [outcome |-> Raise("AttributeError", "'NoneType' object has no attribute 'get'"),
          requests |-> << >>]
    ELSE
    [requests |-> Sent([method |-> "GET", url |-> client.base_url \o path,
                        auth |-> OpenAPIAuth(client)], reply),
     outcome |->
        IF reply.net = "timeout" THEN TimedOut(client.timeout)
        ELSE IF reply.net = "error" THEN Raise("APIError", "API request failed: network")
        ELSE IF reply.status = 422 THEN
            IF reply.body = "notjson"
            THEN RaiseWith("OpenAPIValidationError",
                           "Validation error: " \o reply.text, << >>)
            ELSE IF reply.body = "nonobject"
            THEN Raise("AttributeError", "'list' object has no attribute 'get'")
            ELSE RaiseWith("OpenAPIValidationError",
                           "Validation error: " \o reply.text, ValidationDetail)
        ELSE IF reply.status = 401
        THEN Raise("AuthenticationError",
                   "Authentication failed. Invalid or missing API key.")
        ELSE IF reply.status = 429
        THEN [Raise("RateLimitError", "Rate limit exceeded: " \o reply.text)
                EXCEPT !.attr = ParseRetryAfter(reply.retry)]
        ELSE IF ~(reply.status >= 200 /\ reply.status < 300)
        THEN Raise("APIError", StatusMsg(reply))
        ELSE IF reply.body = "notjson"
        THEN Raise("APIError", "Invalid JSON response from API: decode")
        ELSE IF reply.body = "nonobject"
        THEN Raise("AttributeError", "'list' object has no attribute 'get'")
        ELSE Return(reply)]

\* OpenAPIClient._request for a GET: the outcome is the parsed JSON
\* (the reply itself stands for it) or the exception raised
OpenAPIClient_request(client, path, reply) ==
    IF client.conn = "none"
    THEN [outcome |-> Raise("RuntimeError", NotInitializedMsg), requests |-> << >>]
    ELSE
    [requests |-> Sent([method |-> "GET", url |-> client.base_url \o path,
                        auth |-> OpenAPIAuth(client)], reply),
     outcome |->
        IF reply.net = "timeout" THEN TimedOut(client.timeout)
        ELSE IF reply.net = "error" THEN Raise("APIError", "API request failed: network")
        ELSE IF reply.status = 422 THEN
            IF reply.body = "notjson"
            THEN RaiseWith("OpenAPIValidationError",
                           "Validation error: " \o reply.text, << >>)
            ELSE IF reply.body = "nonobject"
            THEN Raise("AttributeError", "'list' object has no attribute 'get'")
            ELSE RaiseWith("OpenAPIValidationError",
                           "Validation error: " \o reply.text, ValidationDetail)
        ELSE IF reply.status = 401
        THEN Raise("AuthenticationError",
                   "Authentication failed. Invalid or missing API key.")
        ELSE IF reply.status = 429
        THEN [Raise("RateLimitError", "Rate limit exceeded: " \o reply.text)
                EXCEPT !.attr = ParseRetryAfter(reply.retry)]
        ELSE IF ~(reply.status >= 200 /\ reply.status < 300)
        THEN Raise("APIError", StatusMsg(reply))
        ELSE IF reply.body = "notjson"
        THEN Raise("APIError", "Invalid JSON response from API: decode")
        ELSE IF reply.body = "nonobject"
        THEN Raise("AttributeError", "'list' object has no attribute 'get'")
        ELSE Return(reply)]

\* the parsed JSON r validated against a pydantic model
Validated(r, reply, model) ==
    IF ~r.outcome.ok THEN r
    ELSE IF ~reply.valid
    THEN [r EXCEPT !.outcome = Raise("ValidationError", model)]
    ELSE [r EXCEPT !.outcome = Return(Val(reply.data))]

\* OpenAPIClient._request_v2: V2ResponseModel.model_validate on the JSON
OpenAPIClient_request_v2(client, path, reply) ==
    Validated(OpenAPIClient_request(client, path, reply), reply, "V2ResponseModel")

\* V2Methods: the path of each endpoint
V2Path(endpoint, key) == << "/", "v2", "/", endpoint, "/", key >>
V2GeoPath(endpoint, lat, lon, radius) ==
    << "/", "v2", "/", endpoint, "/", HdStr(lat), "/", HdStr(lon), "/",
       ToString(radius) >>

(***************************************************************************)
(* Backend B adapter: OpenAPIAdapter                                       *)
(***************************************************************************)
UnsupportedMsg ==
    "get_all_with_pos() is not supported by the OpenAPI backend due to the 250 NM radius limitation. Please use backend='reapi' for this operation."

\* the common tail "return self._convert_v2_response(v2_response)"
OpenAPIConverted(r, warnings) ==
    [outcome |-> IF r.outcome.ok
                 THEN Return(_convert_v2_response(Val(r.outcome.value), FALSE))
                 ELSE r.outcome,
     requests |-> r.requests,
     warnings |-> warnings]

OpenAPIAdapter_lookup(client, endpoint, key, reply) ==
    OpenAPIConverted(
        OpenAPIClient_request_v2(client, V2Path(endpoint, key), reply), 0)

\* get_in_circle / get_closest refusing the filters they cannot apply
OpenAPIAdapter_geo_rejecting_filters(client, endpoint, a, reply) ==
    IF FiltersTruthy(a.filters)
    THEN [outcome |-> Raise("ValueError", "OpenAPI does not support QueryFilters"),
          requests |-> << >>, warnings |-> 0]
    ELSE OpenAPIConverted(
            OpenAPIClient_request_v2(client,
                V2GeoPath(endpoint, a.lat, a.lon, IntTrunc(a.radius, 10)), reply), 0)

\* get_in_circle and get_closest with round(radius) for int(radius)
OpenAPIAdapter_geo_rounding_radius(client, endpoint, a, reply) ==
    OpenAPIConverted(
        OpenAPIClient_request_v2(client,
            V2GeoPath(endpoint, a.lat, a.lon, (a.radius + 5) \div 10), reply),
        IF FiltersTruthy(a.filters) THEN 1 ELSE 0)

\* OpenAPIAdapter.get_in_circle and get_closest
OpenAPIAdapter_geo(client, endpoint, a, reply) ==
    OpenAPIConverted(
        OpenAPIClient_request_v2(client,
            V2GeoPath(endpoint, a.lat, a.lon, IntTrunc(a.radius, 10)), reply),
        IF FiltersTruthy(a.filters) THEN 1 ELSE 0)

\* the result of get_in_box with the server's total as its count
BoxSkyDataWithServerTotal(v2_response, filtered_aircraft) ==
    [timestamp |-> v2_response.now,
     result_count |-> v2_response.total,
     processing_time |-> None,
     aircraft |-> filtered_aircraft,
     backend |-> "openapi",
     simulated |-> TRUE]

\* the SkyData that get_in_box builds from the filtered aircraft
BoxSkyData(v2_response, filtered_aircraft) ==
    [timestamp |-> v2_response.now,
     result_count |-> Len(filtered_aircraft),
     processing_time |-> None,
     aircraft |-> filtered_aircraft,
     backend |-> "openapi",
     simulated |-> TRUE]

\* get_in_box once get_by_point has answered r: filter, build the SkyData
BoxFiltered(r, a) ==
    [outcome |->
        IF r.outcome.ok
        THEN Return(BoxSkyData(Val(r.outcome.value),
                               FilterBox(Val(r.outcome.value).ac, a)))
        ELSE r.outcome,
     requests |-> r.requests,
     warnings |-> IF FiltersTruthy(a.filters) THEN 1 ELSE 0]

\* OpenAPIAdapter.get_in_box
OpenAPIAdapter_get_in_box(client, a, reply) ==
    BoxFiltered(
        OpenAPIClient_request_v2(client,
            V2GeoPath("point", CenterLat(a), CenterLon(a),
                      IntTrunc(BoundingRadius(a), 10000)), reply),
        a)

\* get_all_with_pos emulated by a radius search around 0N 0E
OpenAPIAdapter_get_all_with_pos_by_point(client, a, reply) ==
    OpenAPIConverted(
        OpenAPIClient_request_v2(client, V2GeoPath("point", 0, 0, 250), reply), 0)

\* OpenAPIAdapter.get_all_with_pos
OpenAPIAdapter_get_all_with_pos(client, a, reply) ==
    [outcome |-> Raise("UnsupportedOperationError", UnsupportedMsg),
     requests |-> << >>,
     warnings |-> 0]

\* dispatch of a call [name, args] on an OpenAPIAdapter
OpenAPIAdapter_call(client, call, reply) ==
    LET a == call.args
    IN  CASE call.name = "get_by_hex" ->
                OpenAPIAdapter_lookup(client, "hex", a.hex_code, reply)
          [] call.name = "get_by_callsign" ->
                OpenAPIAdapter_lookup(client, "callsign", a.callsign, reply)
          [] call.name = "get_by_registration" ->
                OpenAPIAdapter_lookup(client, "reg", a.registration, reply)
          [] call.name = "get_by_type" ->
                OpenAPIAdapter_lookup(client, "type", a.aircraft_type, reply)
          [] call.name = "get_in_circle" ->
                OpenAPIAdapter_geo(client, "point", a, reply)
          [] call.name = "get_closest" ->
                OpenAPIAdapter_geo(client, "closest", a, reply)
          [] call.name = "get_in_box" ->
                OpenAPIAdapter_get_in_box(client, a, reply)
          [] call.name = "get_all_with_pos" ->
                OpenAPIAdapter_get_all_with_pos(client, a, reply)

(***************************************************************************)
(* Filter Criteria: construction and Backend A wire format                 *)
(*   string fields are sequences of one-character strings                  *)
(***************************************************************************)
NoFilters ==
    [callsign_exact |-> None, callsign_prefix |-> None, squawk |-> None,
     type_code |-> None, above_alt_baro |-> None, below_alt_baro |-> None,
     mil |-> None, pia |-> None, ladd |-> None]

\* validate_altitude_range comparing with >= instead of >
QueryFilters_init_rejecting_equal(f) ==
    IF ~IsNone(f.callsign_exact) /\ ~IsNone(f.callsign_prefix)
    THEN Raise("ValueError", "callsign_exact and callsign_prefix are mutually exclusive")
    ELSE IF ~IsNone(f.above_alt_baro) /\ ~IsNone(f.below_alt_baro)
            /\ Val(f.above_alt_baro) >= Val(f.below_alt_baro)
    THEN Raise("ValueError", "above_alt_baro must be less than below_alt_baro")
    ELSE Return(f)

\* QueryFilters(**fields): the two model validators
QueryFilters_init(f) ==
    IF ~IsNone(f.callsign_exact) /\ ~IsNone(f.callsign_prefix)
    THEN Raise("ValueError", "callsign_exact and callsign_prefix are mutually exclusive")
    ELSE IF ~IsNone(f.above_alt_baro) /\ ~IsNone(f.below_alt_baro)
            /\ Val(f.above_alt_baro) > Val(f.below_alt_baro)
    THEN Raise("ValueError", "above_alt_baro must be less than below_alt_baro")
    ELSE Return(f)

\* urllib.parse.quote_plus on one character
QuoteChar(c) ==
    CASE c = " " -> "+"
      [] c = "," -> "%2C"
      [] c = "&" -> "%26"
      [] c = "=" -> "%3D"
      [] c = "/" -> "%2F"
      [] OTHER -> c

RECURSIVE quote_plus(_)
quote_plus(chars) ==
    IF chars = << >> THEN ""
    ELSE QuoteChar(Head(chars)) \o quote_plus(Tail(chars))

RECURSIVE CharsOf(_)
\* the characters of str(n) for a non-negative integer below 100000
CharsOf(n) ==
    IF n < 10 THEN << ToString(n) >>
    ELSE CharsOf(n \div 10) \o << ToString(n % 10) >>

IntChars(n) == IF n < 0 THEN << "-" >> \o CharsOf(-n) ELSE CharsOf(n)
BoolChars(b) ==
    IF b THEN << "t", "r", "u", "e" >> ELSE << "f", "a", "l", "s", "e" >>

Param(key, present, chars) ==
    IF present THEN << [key |-> key, value |-> chars] >> ELSE << >>

\* true when the optional boolean is present and True
IsTrue(b) == IF IsNone(b) THEN FALSE ELSE Val(b)

\* to_query_params testing "if self.mil:" instead of "is not None"
to_query_params_omitting_false(f) ==
    Param("filter_callsign", ~IsNone(f.callsign_exact),
          IF IsNone(f.callsign_exact) THEN << >> ELSE Val(f.callsign_exact))
    \o Param("filter_callsign_prefix", ~IsNone(f.callsign_prefix),
          IF IsNone(f.callsign_prefix) THEN << >> ELSE Val(f.callsign_prefix))
    \o Param("filter_squawk", ~IsNone(f.squawk),
          IF IsNone(f.squawk) THEN << >> ELSE Val(f.squawk))
    \o Param("filter_type", ~IsNone(f.type_code),
          IF IsNone(f.type_code) THEN << >> ELSE Val(f.type_code))
    \o Param("filter_above_alt_baro", ~IsNone(f.above_alt_baro),
          IF IsNone(f.above_alt_baro) THEN << >> ELSE IntChars(Val(f.above_alt_baro)))
    \o Param("filter_below_alt_baro", ~IsNone(f.below_alt_baro),
          IF IsNone(f.below_alt_baro) THEN << >> ELSE IntChars(Val(f.below_alt_baro)))
    \o Param("filter_mil", IsTrue(f.mil), BoolChars(TRUE))
    \o Param("filter_pia", IsTrue(f.pia), BoolChars(TRUE))
    \o Param("filter_ladd", IsTrue(f.ladd), BoolChars(TRUE))

\* QueryFilters.to_query_params: the (key, value) pairs in insertion order
to_query_params(f) ==
    Param("filter_callsign", ~IsNone(f.callsign_exact),
          IF IsNone(f.callsign_exact) THEN << >> ELSE Val(f.callsign_exact))
    \o Param("filter_callsign_prefix", ~IsNone(f.callsign_prefix),
          IF IsNone(f.callsign_prefix) THEN << >> ELSE Val(f.callsign_prefix))
    \o Param("filter_squawk", ~IsNone(f.squawk),
          IF IsNone(f.squawk) THEN << >> ELSE Val(f.squawk))
    \o Param("filter_type", ~IsNone(f.type_code),
          IF IsNone(f.type_code) THEN << >> ELSE Val(f.type_code))
    \o Param("filter_above_alt_baro", ~IsNone(f.above_alt_baro),
          IF IsNone(f.above_alt_baro) THEN << >> ELSE IntChars(Val(f.above_alt_baro)))
    \o Param("filter_below_alt_baro", ~IsNone(f.below_alt_baro),
          IF IsNone(f.below_alt_baro) THEN << >> ELSE IntChars(Val(f.below_alt_baro)))
    \o Param("filter_mil", ~IsNone(f.mil),
          IF IsNone(f.mil) THEN << >> ELSE BoolChars(Val(f.mil)))
    \o Param("filter_pia", ~IsNone(f.pia),
          IF IsNone(f.pia) THEN << >> ELSE BoolChars(Val(f.pia)))
    \o Param("filter_ladd", ~IsNone(f.ladd),
          IF IsNone(f.ladd) THEN << >> ELSE BoolChars(Val(f.ladd)))

RECURSIVE urlencode(_)
\* urllib.parse.urlencode on the pairs
urlencode(params) ==
    IF params = << >> THEN ""
    ELSE Head(params).key \o "=" \o quote_plus(Head(params).value)
         \o (IF Tail(params) = << >> THEN "" ELSE "&" \o urlencode(Tail(params)))

\* QueryFilters.to_query_string: "" when there are no parameters
JoinParams(params) == IF params = << >> THEN "" ELSE urlencode(params)
to_query_string(f) == JoinParams(to_query_params(f))

(***************************************************************************)
(* Backend A query strings: QueryBuilder                                   *)
(***************************************************************************)
\* the common tail of the builders that take filters
AppendFilters(query, filter_str) ==
    IF filter_str # "" THEN query \o "&" \o filter_str ELSE query
WithFilters(query, filters) ==
    IF FiltersTruthy(filters)
    THEN AppendFilters(query, to_query_string(Val(filters)))
    ELSE query

\* build_circle passing its values through urlencode
build_circle_urlencoded(lat, lon, radius, filters) ==
    WithFilters("circle=" \o HdStr(lat) \o "%2C" \o HdStr(lon) \o "%2C"
                \o TenthStr(radius), filters)

build_circle(lat, lon, radius, filters) ==
    WithFilters("circle=" \o HdStr(lat) \o "," \o HdStr(lon) \o ","
                \o TenthStr(radius), filters)
build_closest(lat, lon, radius, filters) ==
    WithFilters("closest=" \o HdStr(lat) \o "," \o HdStr(lon) \o ","
                \o TenthStr(radius), filters)
build_box(lat_south, lat_north, lon_west, lon_east, filters) ==
    WithFilters("box=" \o HdStr(lat_south) \o "," \o HdStr(lat_north) \o ","
                \o HdStr(lon_west) \o "," \o HdStr(lon_east), filters)
build_find_hex(hex_code) == "find_hex=" \o hex_code
build_find_callsign(callsign) == "find_callsign=" \o callsign
build_find_reg(registration) == "find_reg=" \o registration
build_find_type(type_code) == "find_type=" \o type_code
build_all_with_pos(filters) == WithFilters("all_with_pos", filters)

(***************************************************************************)
(* Backend A transport: ReAPIClient over BaseHTTPClient                    *)
(*   conn is "none" while _http_client is None, "open" while it is a       *)
(*   BaseHTTPClient holding an httpx client, and "unopened" while it is a  *)
(*   BaseHTTPClient whose own httpx reference is None                      *)
(***************************************************************************)
\* ReAPIClient.__init__
ReAPIClient_init(base_url, timeout) ==
    [base_url |-> base_url, timeout |-> timeout, api_key |-> None,
     conn |-> "none"]

\* BaseHTTPClient.get; base_url was stripped by BaseHTTPClient.__init__
BaseHTTPClient_get(client, query_string, reply) ==
    IF client.conn # "open"
    THEN [outcome |-> Raise("RuntimeError", NotInitializedMsg), requests |-> << >>]
    ELSE
    [requests |-> Sent([method |-> "GET",
                        url |-> rstrip(client.base_url) \o << "?" \o query_string >>,
                        auth |-> None], reply),
     outcome |->
        IF reply.net = "timeout" THEN TimedOut(client.timeout)
        ELSE IF reply.net = "error" THEN Raise("APIError", "API request failed: network")
        ELSE IF ~(reply.status >= 200 /\ reply.status < 300)
        THEN Raise("APIError", StatusMsg(reply))
        ELSE IF reply.body = "notjson"
        THEN Raise("APIError", "Invalid JSON response from API: decode")
        ELSE IF reply.body = "nonobject"
        THEN Raise("AttributeError", "'list' object has no attribute 'get'")
        ELSE Return(reply)]

\* a ReAPIClient method: _ensure_client, build the query, get, APIResponse(**data)
ReAPIClient_query(client, query, reply) ==
    IF client.conn = "none"
    THEN [outcome |-> Raise("RuntimeError", NotInitializedMsg), requests |-> << >>]
    ELSE Validated(BaseHTTPClient_get(client, query, reply), reply, "APIResponse")

(***************************************************************************)
(* Backend A adapter: ReAPIAdapter                                         *)
(***************************************************************************)
\* the common tail "return self._convert_api_response(api_response)"
ReAPIConverted(r) ==
    [outcome |-> IF r.outcome.ok
                 THEN Return(_convert_api_response(Val(r.outcome.value), FALSE))
                 ELSE r.outcome,
     requests |-> r.requests,
     warnings |-> 0]

\* the query each ReAPIAdapter operation has its client build
ReAPIQuery(call) ==
    LET a == call.args
    IN  CASE call.name = "get_by_hex" -> build_find_hex(a.hex_code)
          [] call.name = "get_by_callsign" -> build_find_callsign(a.callsign)
          [] call.name = "get_by_registration" -> build_find_reg(a.registration)
          [] call.name = "get_by_type" -> build_find_type(a.aircraft_type)
          [] call.name = "get_in_circle" ->
                build_circle(a.lat, a.lon, a.radius, a.filters)
          [] call.name = "get_closest" ->
                build_closest(a.lat, a.lon, a.radius, a.filters)
          [] call.name = "get_in_box" ->
                build_box(a.lat_south, a.lat_north, a.lon_west, a.lon_east,
                          a.filters)
          [] call.name = "get_all_with_pos" -> build_all_with_pos(a.filters)

\* dispatch of a call [name, args] on a ReAPIAdapter
ReAPIAdapter_call(client, call, reply) ==
    ReAPIConverted(ReAPIClient_query(client, ReAPIQuery(call), reply))

(***************************************************************************)
(* Backend Selector                                                        *)
(***************************************************************************)
\* select_backend (the coroutine)
select_backend(api_key, prefer_reapi) ==
    IF StrTruthy(api_key) THEN "openapi"
    ELSE IF prefer_reapi THEN "reapi"
    ELSE "openapi"

\* select_backend_sync testing "api_key is not None" instead of its truth
select_backend_sync_is_not_none(api_key, prefer_reapi) ==
    IF ~IsNone(api_key) THEN "openapi"
    ELSE IF prefer_reapi THEN "reapi"
    ELSE "openapi"

\* select_backend_sync
select_backend_sync(api_key, prefer_reapi) ==
    IF StrTruthy(api_key) THEN "openapi"
    ELSE IF prefer_reapi THEN "reapi"
    ELSE "openapi"

(***************************************************************************)
(* Input domains                                                           *)
(***************************************************************************)
\* largest number of aircraft in one server response
MaxAc == 2
\* largest number of times one adapter is entered
MaxEnter == 2

\* credentials: absent, empty, whitespace-only, ordinary
ApiKeys == { None, Some(""), Some(" "), Some("key") }
EnvKeys == { None, Some("envkey") }

CustomUrl == << "https:", "/", "/", "custom.test", "/" >>
\* (base_url, timeout) pairs given to a constructor
Configs ==
    { [base_url |-> None, timeout |-> 30],
      [base_url |-> Some(CustomUrl), timeout |-> 60] }

\* positions in half degrees: 15N 35E, 15N 175E, 15N 175W, 25N 35E, and
\* records that lack a latitude or a longitude
V2Item(h, la, lo) ==
    [hex |-> h, r |-> Some("N" \o h), t |-> Some("B738"), lat |-> la, lon |-> lo]
V2Pool ==
    << V2Item("a1", Some(30), Some(70)),
       V2Item("a2", Some(30), Some(350)),
       V2Item("a3", Some(30), Some(-350)),
       V2Item("a4", None, Some(70)),
       V2Item("a5", Some(30), None),
       V2Item("a6", Some(50), Some(70)) >>

\* the sequences of at most n elements of S
RECURSIVE SeqsUpTo(_, _)
SeqsUpTo(S, n) ==
    IF n = 0 THEN { << >> }
    ELSE LET shorter == SeqsUpTo(S, n - 1)
         IN  shorter \cup
             { Append(q, x) : q \in { t \in shorter : Len(t) = n - 1 },
                              x \in S } 

\* the lists of at most MaxAc records of a pool, in the pool's order
Increasing(q) == \A i \in 1..(Len(q) - 1) : q[i] < q[i + 1]
AcLists(pool) ==
    { [i \in 1..Len(q) |-> pool[q[i]]] :
        q \in { t \in SeqsUpTo(1..Len(pool), MaxAc) : Increasing(t) } }

\* the count field a server may send along a list
ServerCounts(q) == { Len(q), Len(q) + 1 }

V2Responses ==
    UNION { { [ac |-> q, total |-> n, now |-> 1700000000] : n \in ServerCounts(q) } :
            q \in AcLists(V2Pool) }
V2Replies == { OkReply(d) : d \in V2Responses } \cup ErrorReplies

\* Backend A parses its records straight into Aircraft
AircraftPool == [i \in 1..Len(V2Pool) |-> _convert_aircraft(V2Pool[i])]
APIResponses ==
    UNION { { [aircraft |-> q, resultCount |-> n, now |-> 1700000000, ptime |-> 5] :
                n \in ServerCounts(q) } :
            q \in AcLists(AircraftPool) }
APIReplies == { OkReply(d) : d \in APIResponses } \cup ErrorReplies

RepliesFor(kind) == IF kind = "openapi" THEN V2Replies ELSE APIReplies

(***************************************************************************)
(* Requests a caller makes                                                 *)
(***************************************************************************)
MilFilter == [NoFilters EXCEPT !.mil = Some(TRUE)]
FilterChoices == { None, Some(NoFilters), Some(MilFilter) }

Call(n, a) == [name |-> n, args |-> a]

LookupCalls ==
    { Call("get_by_hex", [hex_code |-> "a1"]),
      Call("get_by_callsign", [callsign |-> "UAL1"]),
      Call("get_by_registration", [registration |-> "Na1"]),
      Call("get_by_type", [aircraft_type |-> "B738"]) }

\* centre in half degrees, radius in tenths of a nautical mile; nothing
\* keeps a caller from passing a negative radius
Circles ==
    { [lat |-> 30, lon |-> 70, radius |-> 505],
      [lat |-> -75, lon |-> 245, radius |-> 9],
      [lat |-> 30, lon |-> 70, radius |-> -5],
      [lat |-> 30, lon |-> 70, radius |-> -37] }
\* every request without filters, one of each kind also with filters
FiltersFor(x, first) == IF x = first THEN FilterChoices ELSE { None }
GeoCalls ==
    UNION { { Call(n, [lat |-> c.lat, lon |-> c.lon, radius |-> c.radius, filters |-> f]) :
                n \in { "get_in_circle", "get_closest" },
                f \in FiltersFor(c, [lat |-> 30, lon |-> 70, radius |-> 505]) } :
            c \in Circles }

BoxCalls ==
    UNION { { Call("get_in_box", [lat_south |-> b.lat_south, lat_north |-> b.lat_north,
                                  lon_west |-> b.lon_west, lon_east |-> b.lon_east,
                                  filters |-> f]) :
                f \in FiltersFor(b, Box(20, 40, 60, 80)) } :
            b \in Boxes }
AllWithPosCalls ==
    { Call("get_all_with_pos", [filters |-> f]) : f \in FilterChoices }

Calls == LookupCalls \cup GeoCalls \cup BoxCalls \cup AllWithPosCalls

(***************************************************************************)
(* Adapter objects and their scoped acquisition                            *)
(*   created counts the httpx clients the adapter's client has created,    *)
(*   closed the ones it has closed                                         *)
(***************************************************************************)
\* OpenAPIAdapter.__init__
OpenAPIAdapter_init(api_key, base_url, timeout, env_key) ==
    [kind |-> "openapi", api_key |-> api_key, base_url |-> base_url,
     timeout |-> timeout,
     client |-> OpenAPIClient_init(api_key,
                    IF IsNone(base_url) THEN OpenAPIDefaultUrl ELSE Val(base_url),
                    timeout, env_key),
     created |-> 0, closed |-> 0]

\* ReAPIAdapter.__init__
ReAPIAdapter_init(base_url, timeout) ==
    [kind |-> "reapi", api_key |-> None, base_url |-> base_url,
     timeout |-> timeout,
     client |-> ReAPIClient_init(
                    IF IsNone(base_url) THEN ReAPIDefaultUrl ELSE Val(base_url),
                    timeout),
     created |-> 0, closed |-> 0]

\* OpenAPIAdapter.__aenter__ / ReAPIAdapter.__aenter__: the wrapped client
\* creates a fresh httpx client and keeps it
Adapter_aenter(adapter) ==
    [adapter EXCEPT !.client.conn = "open", !.created = @ + 1]

\* OpenAPIAdapter.__aexit__ / ReAPIAdapter.__aexit__: the wrapped client
\* closes the httpx client it holds, if any, and forgets it
Adapter_aexit(adapter) ==
    [adapter EXCEPT !.client.conn = "none",
                    !.closed = IF adapter.client.conn = "open" THEN @ + 1 ELSE @]

\* an operation of the backend protocol on an adapter; it calls nothing
\* but its own client
WithoutCalls(r) ==
    [outcome |-> r.outcome, requests |-> r.requests, calls |-> << >>,
     warnings |-> r.warnings]
Adapter_call(adapter, call, reply) ==
    IF adapter.kind = "openapi"
    THEN WithoutCalls(OpenAPIAdapter_call(adapter.client, call, reply))
    ELSE WithoutCalls(ReAPIAdapter_call(adapter.client, call, reply))

(***************************************************************************)
(* The facade: SkySnoop                                                    *)
(***************************************************************************)
\* largest number of adapters one facade instantiates in a behaviour
MaxAdapters == 2

Modes == { "auto", "openapi", "reapi", "invalid" }

AdapterRequiredMsg == "SkySnoop must be used as an async context manager"

\* __init__ ending with "else: self.backend_type = 'reapi'"
SkySnoop_init_defaulting_to_reapi(backend, api_key, base_url, timeout) ==
    Return([_api_key |-> api_key, _base_url |-> base_url, _timeout |-> timeout,
            _adapter |-> None,
            backend_type |-> IF backend = "auto"
                             THEN select_backend_sync(api_key, TRUE)
                             ELSE IF backend = "openapi" THEN backend ELSE "reapi"])

\* SkySnoop.__init__
SkySnoop_init(backend, api_key, base_url, timeout) ==
    LET self == [_api_key |-> api_key, _base_url |-> base_url,
                 _timeout |-> timeout, _adapter |-> None, backend_type |-> ""]
    IN  IF backend = "auto"
        THEN Return([self EXCEPT !.backend_type = select_backend_sync(api_key, TRUE)])
        ELSE IF backend \in { "openapi", "reapi" }
        THEN Return([self EXCEPT !.backend_type = backend])
        ELSE Raise("ValueError",
                   "Invalid backend: " \o backend \o ". Must be 'auto', 'openapi', or 'reapi'")

\* an adapter instantiated without base_url=self._base_url
SkySnoop_new_adapter_with_default_url(self, env_key) ==
    IF self.backend_type = "openapi"
    THEN OpenAPIAdapter_init(self._api_key, None, self._timeout, env_key)
    ELSE ReAPIAdapter_init(None, self._timeout)

\* the adapter SkySnoop.__aenter__ instantiates
SkySnoop_new_adapter(self, env_key) ==
    IF self.backend_type = "openapi"
    THEN OpenAPIAdapter_init(self._api_key, self._base_url, self._timeout, env_key)
    ELSE ReAPIAdapter_init(self._base_url, self._timeout)

\* __aenter__ taking the adapter from a pool shared by all SkySnoop
\* objects of the same backend
SkySnoop_aenter_sharing_adapter(self, objs, env_key) ==
    IF objs # << >> /\ objs[1].kind = self.backend_type
    THEN [self |-> [self EXCEPT !._adapter = Some(1)],
          heap |-> [objs EXCEPT ![1] = Adapter_aenter(@)]]
    ELSE [self |-> [self EXCEPT !._adapter = Some(Len(objs) + 1)],
          heap |-> Append(objs, Adapter_aenter(SkySnoop_new_adapter(self, env_key)))]

\* __aenter__ entering again the adapter it instantiated last, if any
SkySnoop_aenter_reusing_adapter(self, objs, env_key) ==
    IF objs # << >>
    THEN [self |-> [self EXCEPT !._adapter = Some(Len(objs))],
          heap |-> [objs EXCEPT ![Len(objs)] = Adapter_aenter(@)]]
    ELSE [self |-> [self EXCEPT !._adapter = Some(1)],
          heap |-> << Adapter_aenter(SkySnoop_new_adapter(self, env_key)) >>]

\* SkySnoop.__aenter__: instantiate the adapter, keep it, enter it
SkySnoop_aenter(self, objs, env_key) ==
    [self |-> [self EXCEPT !._adapter = Some(Len(objs) + 1)],
     heap |-> Append(objs, Adapter_aenter(SkySnoop_new_adapter(self, env_key)))]

\* __aexit__ without "self._adapter = None"
SkySnoop_aexit_keeping_adapter(self, objs) ==
    IF ~IsNone(self._adapter)
    THEN [self |-> self,
          heap |-> [objs EXCEPT ![Val(self._adapter)] = Adapter_aexit(@)]]
    ELSE [self |-> self, heap |-> objs]

\* __aexit__ that drops the adapter without exiting it
SkySnoop_aexit_without_release(self, objs) ==
    [self |-> [self EXCEPT !._adapter = None], heap |-> objs]

\* SkySnoop.__aexit__: exit the adapter held, if any, and forget it
SkySnoop_aexit(self, objs) ==
    IF ~IsNone(self._adapter)
    THEN [self |-> [self EXCEPT !._adapter = None],
          heap |-> [objs EXCEPT ![Val(self._adapter)] = Adapter_aexit(@)]]
    ELSE [self |-> self, heap |-> objs]

\* SkySnoop._ensure_adapter
_ensure_adapter(self) ==
    IF IsNone(self._adapter)
    THEN Raise("RuntimeError", AdapterRequiredMsg)
    ELSE Return(Val(self._adapter))

\* get_in_box handing its bounds over as (lat_min, lon_min, lat_max, lon_max)
DelegateBoundsMisordered(call) ==
    LET a == call.args
    IN  IF call.name = "get_in_box"
        THEN Call("get_in_box", [lat_south |-> a.lat_min, lat_north |-> a.lon_min,
                                 lon_west |-> a.lat_max, lon_east |-> a.lon_max,
                                 filters |-> a.filters])
        ELSE call

\* the backend call a public SkySnoop operation makes
Delegate(call) ==
    LET a == call.args
    IN  CASE call.name = "get_by_hex" ->
                Call("get_by_hex", [hex_code |-> a.hex_code])
          [] call.name = "get_by_callsign" ->
                Call("get_by_callsign", [callsign |-> a.callsign])
          [] call.name = "get_by_registration" ->
                Call("get_by_registration", [registration |-> a.registration])
          [] call.name = "get_by_type" ->
                Call("get_by_type", [aircraft_type |-> a.aircraft_type])
          [] call.name = "get_in_circle" ->
                Call("get_in_circle", [lat |-> a.lat, lon |-> a.lon,
                                       radius |-> a.radius, filters |-> a.filters])
          [] call.name = "get_closest" ->
                Call("get_closest", [lat |-> a.lat, lon |-> a.lon,
                                     radius |-> a.radius, filters |-> a.filters])
          [] call.name = "get_in_box" ->
                Call("get_in_box", [lat_south |-> a.lat_min, lat_north |-> a.lat_max,
                                    lon_west |-> a.lon_min, lon_east |-> a.lon_max,
                                    filters |-> a.filters])
          [] call.name = "get_all_with_pos" ->
                Call("get_all_with_pos", [filters |-> a.filters])

\* a public operation that wraps whatever the backend raises in SkySnoopError
\* what a public operation hands back when the adapter answered r to
\* backend_call: the backend's result or exception, as it is
Delegated(adapter, backend_call, r) ==
    [outcome |-> r.outcome,
     calls |-> << [adapter |-> adapter, call |-> backend_call, outcome |-> r.outcome] >>,
     requests |-> r.requests,
     warnings |-> r.warnings]

DelegatedWrappingErrors(adapter, backend_call, r) ==
    [outcome |-> IF r.outcome.ok THEN r.outcome
                 ELSE Raise("SkySnoopError", r.outcome.msg),
     calls |-> << [adapter |-> adapter, call |-> backend_call, outcome |-> r.outcome] >>,
     requests |-> r.requests,
     warnings |-> r.warnings]

SkySnoop_call_wrapping_errors(self, objs, call, reply) ==
    IF ~_ensure_adapter(self).ok
    THEN [outcome |-> _ensure_adapter(self), calls |-> << >>, requests |-> << >>,
          warnings |-> 0]
    ELSE DelegatedWrappingErrors(Val(self._adapter), Delegate(call),
             Adapter_call(objs[Val(self._adapter)], Delegate(call), reply))

\* a public operation of SkySnoop:
\*     adapter = self._ensure_adapter()
\*     return await adapter.<operation>(...)
\* calls lists the backend calls made, each with what the backend answered
SkySnoop_call(self, objs, call, reply) ==
    IF ~_ensure_adapter(self).ok
    THEN [outcome |-> _ensure_adapter(self), calls |-> << >>, requests |-> << >>,
          warnings |-> 0]
    ELSE Delegated(Val(_ensure_adapter(self).value), Delegate(call),
             Adapter_call(objs[Val(_ensure_adapter(self).value)], Delegate(call), reply))

(***************************************************************************)
(* State                                                                   *)
(*   environ   the ADSBLOL_API_KEY environment variable                    *)
(*   heap      the adapter objects, by identity                            *)
(*   facade    the SkySnoop object, None until constructed                 *)
(*   scope     depth: entries not yet exited; active: an entry is the most *)
(*             recent entry or exit; nested: some entry was made while an  *)
(*             earlier one had not been exited                             *)
(*   peer      a second SkySnoop object with its scope, when the program   *)
(*             uses two; operations address facade                         *)
(*   op        the operation that just completed (Idle once its outcome    *)
(*             has been taken); reply: what the transport answered, when a *)
(*             request was sent; outcome: what the operation returned or   *)
(*             raised; requests: the requests it sent; calls: the backend  *)
(*             calls the facade made; warnings: warnings it logged         *)
(***************************************************************************)
VARIABLES environ, heap, facade, scope, peer, op, reply, outcome, requests, calls,
          warnings

vars ==
    << environ, heap, facade, scope, peer, op, reply, outcome, requests, calls,
       warnings >>
objects == << environ, heap, facade, scope, peer >>

Idle == [target |-> "idle", id |-> 0, call |-> Call("", << >>)]
NoOutcome == Return(<< >>)

Completed(o, rep, out, reqs, cs, w) ==
    /\ op' = o
    /\ reply' = rep
    /\ outcome' = out
    /\ requests' = reqs
    /\ calls' = cs
    /\ warnings' = w

\* completion of an operation that answered r = [outcome, requests, calls,
\* warnings]; the reply is kept only if a request was sent
CompletedWith(o, rep, r) ==
    Completed(o, IF r.requests = << >> THEN None ELSE Some(rep),
              r.outcome, r.requests, r.calls, r.warnings)

\* the caller takes the outcome of the completed operation
Resume ==
    /\ op # Idle
    /\ Completed(Idle, None, NoOutcome, << >>, << >>, 0)
    /\ UNCHANGED objects

\* select_backend and select_backend_sync applied to the same arguments
SelectBackend(api_key, prefer_reapi) ==
    /\ op = Idle
    /\ Completed([target |-> "selector", id |-> 0,
                  call |-> Call("select_backend",
                                [api_key |-> api_key, prefer_reapi |-> prefer_reapi])],
                 None,
                 Return([async |-> select_backend(api_key, prefer_reapi),
                         sync |-> select_backend_sync(api_key, prefer_reapi)]),
                 << >>, << >>, 0)
    /\ UNCHANGED objects

(***************************************************************************)
(* A backend adapter used on its own                                       *)
(***************************************************************************)
AdapterOp(i, call) == [target |-> "adapter", id |-> i, call |-> call]

\* async with adapter: __aenter__
AdapterEnter(i) ==
    /\ op = Idle
    /\ i \in DOMAIN heap
    /\ heap[i].created < MaxEnter
    /\ heap' = [heap EXCEPT ![i] = Adapter_aenter(@)]
    /\ Completed(AdapterOp(i, Call("__aenter__", << >>)), None, Return(i),
                 << >>, << >>, 0)
    /\ UNCHANGED << environ, facade, scope, peer >>

\* async with adapter: __aexit__
AdapterExit(i) ==
    /\ op = Idle
    /\ i \in DOMAIN heap
    /\ heap' = [heap EXCEPT ![i] = Adapter_aexit(@)]
    /\ Completed(AdapterOp(i, Call("__aexit__", << >>)), None, Return(<< >>),
                 << >>, << >>, 0)
    /\ UNCHANGED << environ, facade, scope, peer >>

\* await adapter.<operation>(...)
AdapterCall(i, call, rep) ==
    /\ op = Idle
    /\ i \in DOMAIN heap
    /\ CompletedWith(AdapterOp(i, call), rep, Adapter_call(heap[i], call, rep))
    /\ UNCHANGED objects

\* positions _is_in_box is tried on: absent, on, just inside and just
\* outside the bounds of Boxes, and on both sides of the antimeridian
TestLats == { None } \cup { Some(x) : x \in { 18, 20, 30, 40, 42 } }
TestLons ==
    { None } \cup
    { Some(x) : x \in { 58, 60, 70, 80, 82, 0, 338, 340, 350, 360,
                         -360, -350, -340, -338 } }

\* adapter._is_in_box(aircraft, lat_south, lat_north, lon_west, lon_east)
IsInBox(i, la, lo, box) ==
    /\ op = Idle
    /\ i \in DOMAIN heap
    /\ heap[i].kind = "openapi"
    /\ LET aircraft == V2Item("p", la, lo)
       IN  Completed(AdapterOp(i, Call("_is_in_box",
                         [aircraft |-> aircraft,
                          lat_south |-> box.lat_south, lat_north |-> box.lat_north,
                          lon_west |-> box.lon_west, lon_east |-> box.lon_east])),
                     None,
                     Return(_is_in_box(aircraft, box.lat_south, box.lat_north,
                                       box.lon_west, box.lon_east)),
                     << >>, << >>, 0)
    /\ UNCHANGED objects

StandaloneAdapters(env_key) ==
    { OpenAPIAdapter_init(None, None, 30, env_key),
      OpenAPIAdapter_init(Some("key"), Some(CustomUrl), 60, env_key),
      ReAPIAdapter_init(None, 30) }

AdapterInit ==
    /\ environ \in EnvKeys
    /\ heap \in { << a >> : a \in StandaloneAdapters(environ) }
    /\ IsNone(environ) \/ IsNone(heap[1].api_key)
    /\ facade = None
    /\ scope = [depth |-> 0, active |-> FALSE, nested |-> FALSE]
    /\ peer = None
    /\ op = Idle
    /\ reply = None
    /\ outcome = NoOutcome
    /\ requests = << >>
    /\ calls = << >>
    /\ warnings = 0

AdapterNext ==
    \/ \E i \in DOMAIN heap : AdapterEnter(i)
    \/ \E i \in DOMAIN heap : AdapterExit(i)
    \/ \E i \in DOMAIN heap : \E call \in Calls : \E rep \in RepliesFor(heap[i].kind) :
          AdapterCall(i, call, rep)
    \/ \E i \in DOMAIN heap : \E la \in TestLats : \E lo \in TestLons : \E b \in Boxes :
          IsInBox(i, la, lo, b)
    \/ \E k \in ApiKeys : \E p \in BOOLEAN : SelectBackend(k, p)
    \/ Resume

AdapterSpec == AdapterInit /\ [][AdapterNext]_vars

(***************************************************************************)
(* One SkySnoop used by one caller                                         *)
(***************************************************************************)
\* constructor arguments: automatic selection without, with and with an
\* empty credential, Backend B by name, and a backend that does not exist
SkySnoopArgs ==
    { [backend |-> "auto", api_key |-> None, base_url |-> None, timeout |-> 30],
      [backend |-> "auto", api_key |-> Some("key"), base_url |-> Some(CustomUrl),
       timeout |-> 60],
      [backend |-> "auto", api_key |-> Some(""), base_url |-> None, timeout |-> 30],
      [backend |-> "openapi", api_key |-> None, base_url |-> None, timeout |-> 30],
      [backend |-> "openapi", api_key |-> Some("key"), base_url |-> Some(CustomUrl),
       timeout |-> 60],
      [backend |-> "reapi", api_key |-> Some("key"), base_url |-> Some(CustomUrl),
       timeout |-> 60],
      [backend |-> "invalid", api_key |-> None, base_url |-> None, timeout |-> 30],
      [backend |-> "OpenAPI", api_key |-> Some("key"), base_url |-> None,
       timeout |-> 30] }

\* the public operations as a caller invokes them
SkySnoopCalls ==
    LookupCalls
    \cup { Call(n, [lat |-> 30, lon |-> 70, radius |-> 505, filters |-> f]) :
             n \in { "get_in_circle", "get_closest" }, f \in { None, Some(MilFilter) } }
    \cup { Call("get_in_box", [lat_min |-> 20, lat_max |-> 40, lon_min |-> 60,
                               lon_max |-> 80, filters |-> f]) :
             f \in { None, Some(MilFilter) } }
    \cup { Call("get_in_box", [lat_min |-> 30, lat_max |-> 40, lon_min |-> 350,
                               lon_max |-> -350, filters |-> None]) }
    \cup { Call("get_all_with_pos", [filters |-> f]) : f \in { None, Some(MilFilter) } }

\* what the transport answers a SkySnoop's backend: the failures, and
\* lists drawn from the first two records of the pool
SkySnoopReplies(kind) ==
    ErrorReplies \cup
    { rep \in RepliesFor(kind) :
        /\ rep.valid
        /\ \A i \in 1..Len(Val(rep.data)[IF kind = "openapi" THEN "ac" ELSE "aircraft"]) :
              Val(rep.data)[IF kind = "openapi" THEN "ac" ELSE "aircraft"][i].hex
                  \in { "a1", "a2" } }

FacadeOp(call) == [target |-> "facade", id |-> 0, call |-> call]

\* SkySnoop(backend=..., api_key=..., base_url=..., timeout=...)
Construct(a) ==
    /\ op = Idle
    /\ IsNone(facade)
    /\ LET r == SkySnoop_init(a.backend, a.api_key, a.base_url, a.timeout)
       IN  /\ facade' = IF r.ok THEN r.value ELSE None
           /\ Completed(FacadeOp(Call("__init__", a)), None,
                        IF r.ok THEN Return(<< >>) ELSE r, << >>, << >>, 0)
    /\ UNCHANGED << environ, heap, scope, peer >>

\* async with client: __aenter__
Enter ==
    /\ op = Idle
    /\ ~IsNone(facade)
    /\ Len(heap) < MaxAdapters
    /\ LET r == SkySnoop_aenter(Val(facade), heap, environ)
       IN  /\ facade' = Some(r.self)
           /\ heap' = r.heap
    /\ scope' = [depth |-> scope.depth + 1, active |-> TRUE,
                 nested |-> scope.nested \/ scope.depth > 0]
    /\ Completed(FacadeOp(Call("__aenter__", << >>)), None, Return(<< >>),
                 << >>, << >>, 0)
    /\ UNCHANGED << environ, peer >>

\* the exception, if any, with which the body of the block ends: the one
\* the operation that just completed raised
Pending ==
    IF op.target = "facade" /\ op.call.name \notin { "__init__", "__aenter__", "__aexit__" }
       /\ ~outcome.ok
    THEN Some(outcome)
    ELSE None

\* async with client: __aexit__(exc_type, exc_val, exc_tb); it returns
\* None, so the exception the body raised goes on to the caller
Exit ==
    /\ ~IsNone(facade)
    /\ LET r == SkySnoop_aexit(Val(facade), heap)
       IN  /\ facade' = Some(r.self)
           /\ heap' = r.heap
    /\ scope' = [scope EXCEPT !.depth = IF @ > 0 THEN @ - 1 ELSE 0,
                               !.active = FALSE]
    /\ Completed(FacadeOp(Call("__aexit__",
                               [exc |-> Pending, adapter |-> Val(facade)._adapter])),
                 None,
                 IF IsNone(Pending) THEN Return(<< >>) ELSE Val(Pending),
                 << >>, << >>, 0)
    /\ UNCHANGED << environ, peer >>

\* await client.<operation>(...)
FacadeCall(call, rep) ==
    /\ op = Idle
    /\ ~IsNone(facade)
    /\ CompletedWith(FacadeOp(call), rep, SkySnoop_call(Val(facade), heap, call, rep))
    /\ UNCHANGED objects

Init ==
    /\ environ \in EnvKeys
    /\ heap = << >>
    /\ facade = None
    /\ scope = [depth |-> 0, active |-> FALSE, nested |-> FALSE]
    /\ peer = None
    /\ op = Idle
    /\ reply = None
    /\ outcome = NoOutcome
    /\ requests = << >>
    /\ calls = << >>
    /\ warnings = 0

Next ==
    \/ \E a \in SkySnoopArgs : Construct(a)
    \/ Enter
    \/ Exit
    \/ \E call \in SkySnoopCalls :
          \E rep \in SkySnoopReplies(IF IsNone(facade) THEN "" ELSE Val(facade).backend_type) :
             FacadeCall(call, rep)
    \/ Resume

Spec == Init /\ [][Next]_vars

(***************************************************************************)
(* Two SkySnoop objects in one program                                     *)
(***************************************************************************)
NoScope == [depth |-> 0, active |-> FALSE, nested |-> FALSE]

\* the two are constructed with "auto": one without, one with an API key,
\* or both alike
PairArgs ==
    { a \in SkySnoopArgs :
        a.backend = "auto" /\ a.api_key \in { None, Some("key") } }
PairFacades ==
    { SkySnoop_init(a.backend, a.api_key, a.base_url, a.timeout).value :
        a \in PairArgs }

PairCalls ==
    { Call("get_by_hex", [hex_code |-> "a1"]),
      Call("get_closest", [lat |-> 30, lon |-> 70, radius |-> 505, filters |-> None]) }
PairReplies(kind) ==
    { NetReply("timeout") } \cup
    { rep \in SkySnoopReplies(kind) : rep.valid /\ Val(rep.data).now = 1700000000
          /\ Len(Val(rep.data)[IF kind = "openapi" THEN "ac" ELSE "aircraft"]) = 1 }

\* the program turns to its other SkySnoop object
Switch ==
    /\ op = Idle
    /\ ~IsNone(peer)
    /\ facade' = Val(peer).facade
    /\ scope' = Val(peer).scope
    /\ peer' = Some([facade |-> facade, scope |-> scope])
    /\ UNCHANGED << environ, heap, op, reply, outcome, requests, calls, warnings >>

\* both objects constructed, neither entered
PairInit ==
    /\ environ \in EnvKeys
    /\ heap = << >>
    /\ facade \in PairFacades
    /\ scope = NoScope
    /\ peer \in { Some([facade |-> f, scope |-> NoScope]) : f \in PairFacades }
    /\ op = Idle
    /\ reply = None
    /\ outcome = NoOutcome
    /\ requests = << >>
    /\ calls = << >>
    /\ warnings = 0

PairNext ==
    \/ Enter
    \/ Exit
    \/ \E call \in PairCalls :
          \E rep \in PairReplies(Val(facade).backend_type) : FacadeCall(call, rep)
    \/ Switch
    \/ Resume

PairSpec == PairInit /\ [][PairNext]_vars

(***************************************************************************)
(* One SkySnoop whose backend may fail to acquire or release its           *)
(* connection: the httpx client raises where it is created or closed       *)
(***************************************************************************)
AcquireFailed == Raise("Exception", "httpx.AsyncClient")
ReleaseFailed == Raise("Exception", "aclose")

\* SkySnoop.__aenter__ when "await self._adapter.__aenter__()" raises: the
\* adapter has been instantiated and assigned, its client holds no
\* connection
SkySnoop_aenter_failing(self, objs, env_key) ==
    [self |-> [self EXCEPT !._adapter = Some(Len(objs) + 1)],
     heap |-> Append(objs, SkySnoop_new_adapter(self, env_key))]

\* SkySnoop.__aexit__ when "await self._adapter.__aexit__(...)" raises:
\* neither "self._client = None" of the client nor "self._adapter = None"
\* is reached
SkySnoop_aexit_failing(self, objs) == [self |-> self, heap |-> objs]

\* async with client: __aenter__ raising; the body of the block is not
\* entered and __aexit__ is not called
EnterFailing ==
    /\ op = Idle
    /\ ~IsNone(facade)
    /\ Len(heap) < MaxAdapters
    /\ LET r == SkySnoop_aenter_failing(Val(facade), heap, environ)
       IN  /\ facade' = Some(r.self)
           /\ heap' = r.heap
    /\ Completed(FacadeOp(Call("__aenter__", << >>)), None, AcquireFailed,
                 << >>, << >>, 0)
    /\ UNCHANGED << environ, scope, peer >>

\* async with client: __aexit__ raising while it closes the connection of
\* the adapter held; the block is left with that exception
ExitFailing ==
    /\ ~IsNone(facade)
    /\ scope.depth > 0
    /\ ~IsNone(Val(facade)._adapter)
    /\ heap[Val(Val(facade)._adapter)].client.conn = "open"
    /\ LET r == SkySnoop_aexit_failing(Val(facade), heap)
       IN  /\ facade' = Some(r.self)
           /\ heap' = r.heap
    /\ scope' = [scope EXCEPT !.depth = @ - 1, !.active = FALSE]
    /\ Completed(FacadeOp(Call("__aexit__",
                               [exc |-> Pending, adapter |-> Val(facade)._adapter])),
                 None, ReleaseFailed, << >>, << >>, 0)
    /\ UNCHANGED << environ, peer >>

FaultCalls ==
    PairCalls \cup { Call("get_all_with_pos", [filters |-> None]) }

FaultNext ==
    \/ \E a \in PairArgs : Construct(a)
    \/ Enter
    \/ EnterFailing
    \/ Exit
    \/ ExitFailing
    \/ \E call \in FaultCalls :
          \E rep \in PairReplies(IF IsNone(facade) THEN "" ELSE Val(facade).backend_type) :
             FacadeCall(call, rep)
    \/ Resume

FaultSpec == Init /\ [][FaultNext]_vars

(***************************************************************************)
(* Filter Criteria and query strings on their own                          *)
(***************************************************************************)
\* largest altitude threshold, in steps of 17500 ft
MaxAltitude == 1
Altitudes == { 17500 * k : k \in 0..MaxAltitude }
Thresholds == { None } \cup { Some(n) : n \in Altitudes }
Flags == { None, Some(TRUE), Some(FALSE) }

\* the keyword arguments QueryFilters is constructed with
FilterFields ==
    [callsign_exact : { None, Some(<< >>), Some(<< "U", "A", "L", "1" >>) },
     callsign_prefix : { None, Some(<< "U", "A" >>) },
     squawk : { None, Some(<< "7", "7", "0", "0" >>) },
     type_code : { None, Some(<< "B", "7", "3", "8" >>) },
     above_alt_baro : Thresholds,
     below_alt_baro : Thresholds,
     mil : Flags,
     pia : { None, Some(TRUE) },
     ladd : { None, Some(FALSE) }]

\* the QueryFilters objects that exist
ValidFilters == { f \in FilterFields : QueryFilters_init(f).ok }

QueryOp(target, call) == [target |-> target, id |-> 0, call |-> call]

\* QueryFilters(**f)
NewQueryFilters(f) ==
    /\ op = Idle
    /\ Completed(QueryOp("filters", Call("__init__", f)), None,
                 QueryFilters_init(f), << >>, << >>, 0)
    /\ UNCHANGED objects

\* f.to_query_params()
ToQueryParams(f) ==
    /\ op = Idle
    /\ Completed(QueryOp("filters", Call("to_query_params", f)), None,
                 Return(to_query_params(f)), << >>, << >>, 0)
    /\ UNCHANGED objects

\* f.to_query_string()
ToQueryString(f) ==
    /\ op = Idle
    /\ Completed(QueryOp("filters", Call("to_query_string", f)), None,
                 Return(to_query_string(f)), << >>, << >>, 0)
    /\ UNCHANGED objects

\* the filters a builder is given: every QueryFilters for the first
\* circle and box, none, empty ones and the military flag for the others
BuilderFilters(x, first) ==
    IF x = first THEN { None } \cup { Some(f) : f \in ValidFilters }
    ELSE FilterChoices

BuilderCalls ==
    UNION { { Call(n, [lat |-> c.lat, lon |-> c.lon, radius |-> c.radius,
                       filters |-> f]) :
                n \in { "build_circle", "build_closest" },
                f \in BuilderFilters(c, [lat |-> 30, lon |-> 70, radius |-> 505]) } :
            c \in Circles }
    \cup
    UNION { { Call("build_box", [lat_south |-> b.lat_south, lat_north |-> b.lat_north,
                                 lon_west |-> b.lon_west, lon_east |-> b.lon_east,
                                 filters |-> f]) :
                f \in BuilderFilters(b, Box(20, 40, 60, 80)) } :
            b \in Boxes }

\* QueryBuilder.build_circle / build_closest / build_box
QueryBuilder_call(call) ==
    LET a == call.args
    IN  CASE call.name = "build_circle" ->
                build_circle(a.lat, a.lon, a.radius, a.filters)
          [] call.name = "build_closest" ->
                build_closest(a.lat, a.lon, a.radius, a.filters)
          [] call.name = "build_box" ->
                build_box(a.lat_south, a.lat_north, a.lon_west, a.lon_east,
                          a.filters)

BuildQuery(call) ==
    /\ op = Idle
    /\ Completed(QueryOp("builder", call), None, Return(QueryBuilder_call(call)),
                 << >>, << >>, 0)
    /\ UNCHANGED objects

\* no adapter, no facade: only the query package is used
QueryInit ==
    /\ environ = None
    /\ heap = << >>
    /\ facade = None
    /\ scope = [depth |-> 0, active |-> FALSE, nested |-> FALSE]
    /\ peer = None
    /\ op = Idle
    /\ reply = None
    /\ outcome = NoOutcome
    /\ requests = << >>
    /\ calls = << >>
    /\ warnings = 0

QueryNext ==
    \/ \E f \in FilterFields : NewQueryFilters(f)
    \/ \E f \in ValidFilters : ToQueryParams(f)
    \/ \E f \in ValidFilters : ToQueryString(f)
    \/ \E call \in BuilderCalls : BuildQuery(call)
    \/ Resume

QuerySpec == QueryInit /\ [][QueryNext]_vars

(***************************************************************************)
(* Properties of the adapters and the selector                             *)
(***************************************************************************)
\* what the completed operation returned
Result == Val(outcome.value)

QueryNames ==
    { "get_by_hex", "get_by_callsign", "get_by_registration", "get_by_type",
      "get_in_circle", "get_closest", "get_in_box", "get_all_with_pos" }

\* an adapter operation has just returned a SkyData
AdapterReturned ==
    /\ op.target = "adapter"
    /\ op.call.name \in QueryNames
    /\ outcome.ok

\* a box search on an OpenAPIAdapter has just returned
BoxReturned ==
    /\ AdapterReturned
    /\ heap[op.id].kind = "openapi"
    /\ op.call.name = "get_in_box"

\* point_in_box as the specification words it
PointInBox(lat, lon, lat_south, lat_north, lon_west, lon_east) ==
    /\ ~IsNone(lat)
    /\ ~IsNone(lon)
    /\ lat_south <= Val(lat)
    /\ Val(lat) <= lat_north
    /\ \/ lon_west <= lon_east /\ lon_west <= Val(lon) /\ Val(lon) <= lon_east
       \/ lon_west > lon_east /\ (Val(lon) >= lon_west \/ Val(lon) <= lon_east)

InRequestedBox(ac) ==
    PointInBox(ac.lat, ac.lon, op.call.args.lat_south, op.call.args.lat_north,
               op.call.args.lon_west, op.call.args.lon_east)

\* C1: every SkyData an adapter operation returns has result_count equal to
\* the length of its aircraft list
C1_ResultCountIsLength ==
    AdapterReturned => Result.result_count = Len(Result.aircraft)

\* C2: every aircraft a Backend B box search returns has a latitude and a
\* longitude and lies in the requested box
C2_BoxResultsInBox ==
    BoxReturned =>
        \A i \in 1..Len(Result.aircraft) :
            /\ ~IsNone(Result.aircraft[i].lat)
            /\ ~IsNone(Result.aircraft[i].lon)
            /\ InRequestedBox(Result.aircraft[i])

\* a box search returned aircraft although the server's list also held an
\* aircraft without a position and one outside the box
C2_Witness ==
    /\ BoxReturned
    /\ Len(Result.aircraft) > 0
    /\ \E i \in 1..Len(Val(Val(reply).data).ac) : IsNone(Val(Val(reply).data).ac[i].lat)

RECURSIVE Kept(_)
\* the aircraft of a server list that lie in the requested box, in order
Kept(ac) ==
    IF ac = << >> THEN << >>
    ELSE (IF InRequestedBox(Head(ac)) THEN << Head(ac).hex >> ELSE << >>)
         \o Kept(Tail(ac))

\* C3: a Backend B box search returns exactly the aircraft of the server's
\* list that lie in the box, counts them in result_count and is marked
\* simulated, also when none lies in the box
C3_BoxResultIsFilteredSubset ==
    BoxReturned =>
        /\ [i \in 1..Len(Result.aircraft) |-> Result.aircraft[i].hex]
             = Kept(Val(Val(reply).data).ac)
        /\ Result.result_count = Len(Kept(Val(Val(reply).data).ac))
        /\ Result.simulated = TRUE

\* a box search kept one of two aircraft while the server counted three
C3_Witness ==
    /\ BoxReturned
    /\ Len(Val(Val(reply).data).ac) = 2
    /\ Val(Val(reply).data).total = 3
    /\ Len(Result.aircraft) = 1

\* a box search returned an empty result from a non-empty server list
C3_WitnessEmpty ==
    /\ BoxReturned
    /\ Len(Val(Val(reply).data).ac) > 0
    /\ Result.aircraft = << >>

IsInBoxApplied == op.target = "adapter" /\ op.call.name = "_is_in_box"

\* C4: _is_in_box is true exactly when the point has a latitude and a
\* longitude, lat_south <= lat <= lat_north, and the longitude is in
\* [lon_west, lon_east] or, when lon_west > lon_east, is >= lon_west or
\* <= lon_east; a box across the antimeridian excludes the longitudes
\* strictly between lon_east and lon_west
C4_IsInBoxFormula ==
    IsInBoxApplied =>
        LET a == op.call.args
        IN  /\ Result =
                 PointInBox(a.aircraft.lat, a.aircraft.lon, a.lat_south,
                            a.lat_north, a.lon_west, a.lon_east)
            /\ (/\ ~IsNone(a.aircraft.lon)
                /\ a.lon_west > a.lon_east
                /\ a.lon_east < Val(a.aircraft.lon)
                /\ Val(a.aircraft.lon) < a.lon_west) => Result = FALSE

\* a point west of the antimeridian is found in a box that crosses it
C4_Witness ==
    /\ IsInBoxApplied
    /\ op.call.args.lon_west > op.call.args.lon_east
    /\ op.call.args.aircraft.lon = Some(-350)
    /\ Result = TRUE

\* a point on the north-east corner of an ordinary box is found in it
C4_WitnessCorner ==
    /\ IsInBoxApplied
    /\ op.call.args.lon_west < op.call.args.lon_east
    /\ op.call.args.aircraft.lat = Some(op.call.args.lat_north)
    /\ op.call.args.aircraft.lon = Some(op.call.args.lon_east)
    /\ Result = TRUE

\* the selector as the specification tabulates it
Selected(api_key, prefer_reapi) ==
    IF ~IsNone(api_key) /\ Val(api_key) # "" THEN "openapi"
    ELSE IF prefer_reapi THEN "reapi"
    ELSE "openapi"

\* C5: a non-empty credential selects openapi; an absent or empty one
\* selects reapi when prefer_reapi holds and openapi otherwise;
\* select_backend and select_backend_sync agree
C5_SelectorTable ==
    op.target = "selector" =>
        /\ outcome.ok
        /\ Result.async = Selected(op.call.args.api_key, op.call.args.prefer_reapi)
        /\ Result.sync = Result.async

\* the empty credential with the preference for reapi selected reapi
C5_Witness ==
    /\ op.target = "selector"
    /\ op.call.args.api_key = Some("")
    /\ op.call.args.prefer_reapi
    /\ Result.sync = "reapi"

\* a whitespace-only credential selected openapi against the preference
C5_WitnessWhitespace ==
    /\ op.target = "selector"
    /\ op.call.args.api_key = Some(" ")
    /\ op.call.args.prefer_reapi
    /\ Result.async = "openapi"

AllWithPosOnOpenAPI ==
    /\ op.target = "adapter"
    /\ op.call.name = "get_all_with_pos"
    /\ heap[op.id].kind = "openapi"

\* C6: get_all_with_pos of Backend B raises UnsupportedOperationError and
\* sends no request, whatever the filters and whether or not the adapter
\* has been entered
C6_AllWithPosUnsupported ==
    AllWithPosOnOpenAPI =>
        /\ ~outcome.ok
        /\ outcome.kind = "UnsupportedOperationError"
        /\ requests = << >>
        /\ IsNone(reply)

\* get_all_with_pos was refused on an entered adapter, with filters given
C6_Witness ==
    /\ AllWithPosOnOpenAPI
    /\ heap[op.id].client.conn = "open"
    /\ ~IsNone(op.call.args.filters)
    /\ outcome.kind = "UnsupportedOperationError"

\* get_all_with_pos was refused on an adapter that was never entered
C6_WitnessNotEntered ==
    /\ AllWithPosOnOpenAPI
    /\ heap[op.id].created = 0
    /\ outcome.kind = "UnsupportedOperationError"

(***************************************************************************)
(* Properties of the facade                                                *)
(***************************************************************************)
\* a public operation of the facade has just completed
FacadeOperated ==
    /\ op.target = "facade"
    /\ op.call.name \in QueryNames

C7_WitnessBeforeEntry ==
    /\ FacadeOperated
    /\ heap = << >>
    /\ outcome.kind = "RuntimeError"

Exited == op.target = "facade" /\ op.call.name = "__aexit__"

C8_WitnessNormal ==
    /\ Exited
    /\ IsNone(op.call.args.exc)
    /\ ~IsNone(op.call.args.adapter)
    /\ heap[Val(op.call.args.adapter)].closed = 1

\* the backend call the specification prescribes for a facade call
Prescribed(call) ==
    IF call.name = "get_in_box"
    THEN Call("get_in_box",
              [lat_south |-> call.args.lat_min, lat_north |-> call.args.lat_max,
               lon_west |-> call.args.lon_min, lon_east |-> call.args.lon_max,
               filters |-> call.args.filters])
    ELSE call

\* C9: inside an active scope a public operation makes exactly one call, to
\* the same-named operation of the adapter held, with the caller's
\* arguments (the bounds of get_in_box as lat_south, lat_north, lon_west,
\* lon_east; filters as given), and returns what that call returned
C9_Delegation ==
    (FacadeOperated /\ scope.active) =>
        /\ Len(calls) = 1
        /\ Some(calls[1].adapter) = Val(facade)._adapter
        /\ calls[1].call = Prescribed(op.call)
        /\ calls[1].outcome.ok =>
              /\ outcome.ok
              /\ outcome.value = calls[1].outcome.value

\* a box search through the facade returned the backend's result
C9_Witness ==
    /\ FacadeOperated
    /\ scope.active
    /\ op.call.name = "get_in_box"
    /\ ~IsNone(op.call.args.filters)
    /\ outcome.ok
    /\ Len(Result.aircraft) > 0

\* C10: what a backend operation raises reaches the facade's caller with
\* the same kind, message and attributes, after one backend call and at
\* most one request
C10_FailuresPropagate ==
    (FacadeOperated /\ calls # << >> /\ ~calls[Len(calls)].outcome.ok) =>
        /\ Len(calls) = 1
        /\ Len(requests) <= 1
        /\ ~outcome.ok
        /\ outcome = calls[1].outcome

\* a timeout of the backend reached the caller
C10_Witness ==
    /\ FacadeOperated
    /\ calls # << >>
    /\ calls[1].outcome.kind = "TimeoutError"
    /\ outcome.kind = "TimeoutError"

\* the refusal of get_all_with_pos by Backend B reached the caller
C10_WitnessUnsupported ==
    /\ FacadeOperated
    /\ calls # << >>
    /\ outcome.kind = "UnsupportedOperationError"

(***************************************************************************)
(* Properties of requests and failures                                     *)
(***************************************************************************)
\* a query operation of an adapter has just completed
AdapterOperated ==
    /\ op.target = "adapter"
    /\ op.call.name \in QueryNames

\* C11: an adapter operation sends at most one request; a Backend B box
\* search on an entered adapter sends exactly one, however many aircraft
\* the server lists; a request that fails is not sent again
C11_AtMostOneRequest ==
    AdapterOperated =>
        /\ Len(requests) <= 1
        /\ ~IsNone(reply) => Len(requests) = 1
        /\ (/\ heap[op.id].kind = "openapi"
            /\ heap[op.id].client.conn = "open"
            /\ op.call.name = "get_in_box") => Len(requests) = 1

\* a box search whose server listed two aircraft sent one request
C11_Witness ==
    /\ BoxReturned
    /\ Len(Val(Val(reply).data).ac) = 2
    /\ Len(requests) = 1

\* an operation whose request met a network error sent one request
C11_WitnessFailed ==
    /\ AdapterOperated
    /\ ~IsNone(reply)
    /\ Val(reply).net = "error"
    /\ ~outcome.ok
    /\ Len(requests) = 1

\* the transport has just timed out under an adapter operation
AdapterTimedOut ==
    /\ AdapterOperated
    /\ ~IsNone(reply)
    /\ Val(reply).net = "timeout"

\* C12: when the request times out, the operation of either backend
\* raises TimeoutError, not APIError, and one request has been sent
C12_TimeoutKind ==
    AdapterTimedOut =>
        /\ ~outcome.ok
        /\ outcome.kind = "TimeoutError"
        /\ outcome.msg = TimeoutMsg(heap[op.id].timeout)
        /\ Len(requests) = 1

\* a Backend A operation timed out after its configured 30 seconds
C12_Witness ==
    /\ AdapterTimedOut
    /\ heap[op.id].kind = "reapi"
    /\ outcome.kind = "TimeoutError"

\* a Backend B operation timed out after its configured 60 seconds
C12_WitnessOpenAPI ==
    /\ AdapterTimedOut
    /\ heap[op.id].kind = "openapi"
    /\ heap[op.id].timeout = 60
    /\ outcome.kind = "TimeoutError"

(***************************************************************************)
(* Properties of the construction of SkySnoop                              *)
(***************************************************************************)
\* SkySnoop(...) has just been evaluated
Constructed ==
    /\ op.target = "facade"
    /\ op.call.name = "__init__"

\* C13: a backend mode other than "auto", "openapi" and "reapi" makes the
\* constructor raise ValueError; no SkySnoop exists, no adapter has been
\* instantiated and no request sent
C13_InvalidModeRejected ==
    (Constructed /\ op.call.args.backend \notin { "auto", "openapi", "reapi" }) =>
        /\ ~outcome.ok
        /\ outcome.kind = "ValueError"
        /\ IsNone(facade)
        /\ heap = << >>
        /\ requests = << >>
        /\ calls = << >>

\* the constructor was given the mode "invalid"
C13_Witness ==
    /\ Constructed
    /\ op.call.args.backend = "invalid"
    /\ outcome.kind = "ValueError"

\* the mode is compared exactly: "OpenAPI" is rejected
C13_WitnessCase ==
    /\ Constructed
    /\ op.call.args.backend = "OpenAPI"
    /\ outcome.kind = "ValueError"

\* the backend the constructor's arguments stand for
BackendOf(a) ==
    IF a.backend = "auto" THEN Selected(a.api_key, TRUE) ELSE a.backend

\* what a successful construction leaves, and what the adapter held is
C14_State ==
    /\ (Constructed /\ outcome.ok) =>
          /\ ~IsNone(facade)
          /\ Val(facade).backend_type = BackendOf(op.call.args)
          /\ Val(facade)._api_key = op.call.args.api_key
          /\ Val(facade)._base_url = op.call.args.base_url
          /\ Val(facade)._timeout = op.call.args.timeout
          /\ IsNone(Val(facade)._adapter)
    /\ (~IsNone(facade) /\ ~IsNone(Val(facade)._adapter)) =>
          LET self == Val(facade)
              adapter == heap[Val(self._adapter)]
          IN  /\ adapter.kind = self.backend_type
              /\ adapter.base_url = self._base_url
              /\ adapter.timeout = self._timeout
              /\ adapter.client.timeout = self._timeout
              /\ adapter.kind = "openapi" => adapter.api_key = self._api_key
              /\ adapter.kind = "reapi" => IsNone(adapter.client.api_key)

\* no operation changes the backend or the stored parameters
C14_Step ==
    ~IsNone(facade) =>
        /\ ~IsNone(facade')
        /\ Val(facade').backend_type = Val(facade).backend_type
        /\ Val(facade')._api_key = Val(facade)._api_key
        /\ Val(facade')._base_url = Val(facade)._base_url
        /\ Val(facade')._timeout = Val(facade)._timeout

\* C14: an explicit mode selects that backend with or without an API key,
\* "auto" selects select_backend_sync(api_key, prefer_reapi=True); the
\* backend and the stored parameters never change afterwards; the adapter
\* created on entry is the one of that backend, given the stored base URL
\* and timeout and, for OpenAPI, the stored API key
C14_BackendFixedAtConstruction == [] C14_State /\ [][C14_Step]_vars

\* explicit "reapi" with an API key: a ReAPIAdapter with the custom URL
C14_Witness ==
    /\ ~IsNone(facade)
    /\ ~IsNone(Val(facade)._adapter)
    /\ Val(facade)._api_key = Some("key")
    /\ heap[Val(Val(facade)._adapter)].kind = "reapi"
    /\ heap[Val(Val(facade)._adapter)].base_url = Some(CustomUrl)
    /\ heap[Val(Val(facade)._adapter)].timeout = 60

\* "auto" with an API key: an OpenAPIAdapter holding that key
C14_WitnessAuto ==
    /\ ~IsNone(facade)
    /\ ~IsNone(Val(facade)._adapter)
    /\ heap[Val(Val(facade)._adapter)].kind = "openapi"
    /\ heap[Val(Val(facade)._adapter)].api_key = Some("key")
    /\ scope.active
    /\ op.call.name = "get_in_circle"
    /\ requests # << >>

\* explicit "openapi" without an API key
C14_WitnessNoKey ==
    /\ Constructed
    /\ outcome.ok
    /\ op.call.args.backend = "openapi"
    /\ IsNone(op.call.args.api_key)
    /\ Val(facade).backend_type = "openapi"

C15_WitnessSimulated ==
    /\ BoxReturned
    /\ Result.backend = "openapi"
    /\ Result.simulated

\* an OpenAPIAdapter radius search returned a result that is not simulated
C15_WitnessCircle ==
    /\ AdapterReturned
    /\ heap[op.id].kind = "openapi"
    /\ op.call.name = "get_in_circle"
    /\ ~Result.simulated

\* a ReAPIAdapter operation has just returned
ReAPIReturned ==
    /\ AdapterReturned
    /\ heap[op.id].kind = "reapi"

\* the APIResponse the client parsed from the reply
Native == Val(Val(reply).data)

\* C16: the SkyData a ReAPIAdapter returns lists as many aircraft as the
\* APIResponse, in the same order and with the same hex codes; its
\* timestamp and processing time are the response's now and ptime
C16_ReAPINormalization ==
    ReAPIReturned =>
        /\ Len(Result.aircraft) = Len(Native.aircraft)
        /\ \A i \in 1..Len(Native.aircraft) :
              Result.aircraft[i].hex = Native.aircraft[i].hex
        /\ Result.timestamp = Native.now
        /\ Result.processing_time = Some(Native.ptime)

\* a response of two aircraft, one of them without a latitude
C16_Witness ==
    /\ ReAPIReturned
    /\ Len(Native.aircraft) = 2
    /\ \E i \in 1..2 : IsNone(Native.aircraft[i].lat)
    /\ Len(Result.aircraft) = 2
    /\ Result.aircraft[1].hex # Result.aircraft[2].hex

\* a response without aircraft
C16_WitnessEmpty ==
    /\ ReAPIReturned
    /\ Native.aircraft = << >>
    /\ Result.aircraft = << >>

(***************************************************************************)
(* Filters given to the OpenAPI adapter                                    *)
(***************************************************************************)
\* a geographic operation of an OpenAPIAdapter, given filters, completed
GeoWithFilters ==
    /\ AdapterOperated
    /\ heap[op.id].kind = "openapi"
    /\ op.call.name \in { "get_in_circle", "get_closest", "get_in_box" }
    /\ ~IsNone(op.call.args.filters)

\* the replies the completed operation may have met: the one it consumed,
\* or any at all when it sent no request
RepliesMet == IF IsNone(reply) THEN V2Replies ELSE { Val(reply) }

\* the same call without its filters, on the same adapter
Unfiltered(rep) ==
    Adapter_call(heap[op.id], [op.call EXCEPT !.args.filters = None], rep)

\* r is what the completed operation sent and returned
SameRequestAndResult(r) ==
    /\ requests = r.requests
    /\ outcome = r.outcome

C17_WitnessBox ==
    /\ GeoWithFilters
    /\ op.call.name = "get_in_box"
    /\ op.call.args.filters = Some(NoFilters)
    /\ outcome.ok
    /\ warnings = 1

\* the same operations without filters log nothing
C17_WitnessNoWarning ==
    /\ AdapterReturned
    /\ heap[op.id].kind = "openapi"
    /\ op.call.name = "get_closest"
    /\ IsNone(op.call.args.filters)
    /\ warnings = 0

(***************************************************************************)
(* Properties of Filter Criteria and of the query strings                  *)
(***************************************************************************)
\* QueryFilters(...) has just been evaluated
FiltersConstructed == op.target = "filters" /\ op.call.name = "__init__"

BothCallsigns(f) == ~IsNone(f.callsign_exact) /\ ~IsNone(f.callsign_prefix)
InvertedThresholds(f) ==
    /\ ~IsNone(f.above_alt_baro)
    /\ ~IsNone(f.below_alt_baro)
    /\ Val(f.above_alt_baro) > Val(f.below_alt_baro)

\* C18: QueryFilters is constructed exactly when callsign_exact and
\* callsign_prefix are not both set and the thresholds, if both set, have
\* above_alt_baro <= below_alt_baro; the object carries the fields given;
\* a rejected construction raises and yields no object
C18_ConstructionIffValid ==
    FiltersConstructed =>
        /\ outcome.ok <=> (~BothCallsigns(op.call.args)
                           /\ ~InvertedThresholds(op.call.args))
        /\ outcome.ok => outcome.value = Some(op.call.args)
        /\ ~outcome.ok => (IsNone(outcome.value) /\ outcome.kind = "ValueError")

\* equal thresholds are accepted
C18_Witness ==
    /\ FiltersConstructed
    /\ op.call.args.above_alt_baro = Some(17500)
    /\ op.call.args.below_alt_baro = Some(17500)
    /\ outcome.ok

\* an empty callsign_exact counts as set: rejected with a prefix
C18_WitnessCallsigns ==
    /\ FiltersConstructed
    /\ op.call.args.callsign_exact = Some(<< >>)
    /\ ~IsNone(op.call.args.callsign_prefix)
    /\ ~InvertedThresholds(op.call.args)
    /\ ~outcome.ok
    /\ IsNone(outcome.value)

\* above_alt_baro greater than below_alt_baro is rejected
C18_WitnessInverted ==
    /\ FiltersConstructed
    /\ ~BothCallsigns(op.call.args)
    /\ op.call.args.above_alt_baro = Some(17500)
    /\ op.call.args.below_alt_baro = Some(0)
    /\ ~outcome.ok

FieldNames ==
    { "callsign_exact", "callsign_prefix", "squawk", "type_code",
      "above_alt_baro", "below_alt_baro", "mil", "pia", "ladd" }
FlagNames == { "mil", "pia", "ladd" }
SetFields(f) == { k \in FieldNames : ~IsNone(f[k]) }

StartsWith(s, prefix) ==
    /\ Len(s) >= Len(prefix)
    /\ SubSeq(s, 1, Len(prefix)) = prefix
\* the number of places at which sub occurs in s
Occurrences(s, sub) ==
    Cardinality({ i \in 1..(Len(s) - Len(sub) + 1) :
                    SubSeq(s, i, i + Len(sub) - 1) = sub })

ParamsReturned == op.target = "filters" /\ op.call.name = "to_query_params"
StringReturned == op.target = "filters" /\ op.call.name = "to_query_string"

\* the value a flag is written with
Literal(b) == IF b THEN << "t", "r", "u", "e" >> ELSE << "f", "a", "l", "s", "e" >>

\* C19: to_query_params holds one parameter for each field that is set
\* and no other, under distinct keys that begin with filter_; a flag is
\* written true or false, False included; to_query_string holds as many
\* key=value pairs; without any field set the parameters are empty and the
\* string is ""
C19_OneParameterPerSetField ==
    /\ ParamsReturned =>
          /\ Len(Result) = Cardinality(SetFields(op.call.args))
          /\ \A i \in 1..Len(Result) : StartsWith(Result[i].key, "filter_")
          /\ \A i, j \in 1..Len(Result) : Result[i].key = Result[j].key => i = j
          /\ \A k \in FlagNames :
                IF IsNone(op.call.args[k])
                THEN \A i \in 1..Len(Result) : Result[i].key # "filter_" \o k
                ELSE \E i \in 1..Len(Result) :
                        /\ Result[i].key = "filter_" \o k
                        /\ Result[i].value = Literal(Val(op.call.args[k]))
    /\ StringReturned =>
          /\ Occurrences(Result, "=") = Cardinality(SetFields(op.call.args))
          /\ Occurrences(Result, "filter_") = Cardinality(SetFields(op.call.args))
          /\ SetFields(op.call.args) = { } <=> Result = ""

\* mil=False alone: the one parameter filter_mil=false
C19_Witness ==
    /\ ParamsReturned
    /\ op.call.args = [NoFilters EXCEPT !.mil = Some(FALSE)]
    /\ Len(Result) = 1
    /\ Result[1].key = "filter_mil"
    /\ Result[1].value = << "f", "a", "l", "s", "e" >>

\* no field set: no parameters
C19_WitnessEmpty ==
    /\ ParamsReturned
    /\ op.call.args = NoFilters
    /\ Result = << >>

\* no field set: the empty string
C19_WitnessEmptyString ==
    /\ StringReturned
    /\ op.call.args = NoFilters
    /\ Result = ""

\* seven fields set: seven pairs in the string
C19_WitnessMany ==
    /\ StringReturned
    /\ Cardinality(SetFields(op.call.args)) = 7
    /\ Occurrences(Result, "&") = 6

Built == op.target = "builder"

\* the query before any filter, as the service expects it
QueryHead(call) ==
    IF call.name = "build_box"
    THEN "box=" \o HdStr(call.args.lat_south) \o "," \o HdStr(call.args.lat_north)
         \o "," \o HdStr(call.args.lon_west) \o "," \o HdStr(call.args.lon_east)
    ELSE (IF call.name = "build_circle" THEN "circle=" ELSE "closest=")
         \o HdStr(call.args.lat) \o "," \o HdStr(call.args.lon) \o ","
         \o TenthStr(call.args.radius)

NoFieldSet(filters) == IsNone(filters) \/ SetFields(Val(filters)) = { }

\* C20: build_circle, build_closest and build_box write key=v1,v2,...
\* with literal commas and nothing percent-encoded; "&" and the filter
\* string follow exactly when the filters set a field, so empty filters
\* give the query that no filters give
C20_CommasAndFilters ==
    Built =>
        /\ StartsWith(Result, QueryHead(op.call))
        /\ Occurrences(Result, ",") = IF op.call.name = "build_box" THEN 3 ELSE 2
        /\ Occurrences(Result, "%") = 0
        /\ IF NoFieldSet(op.call.args.filters)
           THEN Result = QueryHead(op.call)
           ELSE /\ Result = QueryHead(op.call) \o "&"
                            \o to_query_string(Val(op.call.args.filters))
                /\ Len(Result) > Len(QueryHead(op.call)) + 1

\* a radius search with empty filters: the bare query
C20_Witness ==
    /\ Built
    /\ op.call.name = "build_circle"
    /\ op.call.args.filters = Some(NoFilters)
    /\ Result = "circle=15.0,35.0,50.5"

\* a box across the antimeridian with the military flag
C20_WitnessBox ==
    /\ Built
    /\ op.call.name = "build_box"
    /\ op.call.args.lon_west > op.call.args.lon_east
    /\ op.call.args.filters = Some(MilFilter)
    /\ Occurrences(Result, "&filter_mil=true") = 1

\* a closest search without filters
C20_WitnessClosest ==
    /\ Built
    /\ op.call.name = "build_closest"
    /\ IsNone(op.call.args.filters)
    /\ Occurrences(Result, "&") = 0

(***************************************************************************)
(* Properties of the failure kinds                                         *)
(***************************************************************************)
\* an OpenAPIAdapter operation has just consumed an HTTP response or a
\* network error
OpenAPIAnswered ==
    /\ AdapterOperated
    /\ heap[op.id].kind = "openapi"
    /\ ~IsNone(reply)
    /\ Val(reply).net # "timeout"

Is2xx(rep) == rep.net = "ok" /\ rep.status >= 200 /\ rep.status < 300

\* the Retry-After value as an integer, when there is one
RetryAfterOf(rep) == IF rep.retry = Some("7") THEN Some(7) ELSE None

\* the failure the status of rep stands for
StatusMapped(rep, out) ==
    IF rep.net = "error" THEN ~out.ok /\ out.kind = "APIError"
    ELSE IF rep.status = 401 THEN ~out.ok /\ out.kind = "AuthenticationError"
    ELSE IF rep.status = 429
    THEN ~out.ok /\ out.kind = "RateLimitError" /\ out.attr = RetryAfterOf(rep)
    ELSE IF rep.status = 422
    THEN /\ ~out.ok
         /\ out.kind = "OpenAPIValidationError"
         /\ rep.body = "notjson" => out.attr = Some(<< >>)
         /\ rep.body = "object" => out.attr = Some(ValidationDetail)
    ELSE IF ~Is2xx(rep) THEN ~out.ok /\ out.kind = "APIError"
    ELSE (rep.body = "object" /\ rep.valid) => out.ok

\* C21: OpenAPIClient raises AuthenticationError for 401, RateLimitError
\* with retry_after an integer or None for 429, OpenAPIValidationError
\* with the detail list (empty for a body that is not JSON) for 422,
\* APIError for any other non-2xx status and for a network error; a 2xx
\* response raises nothing of these
C21_StatusMapping == OpenAPIAnswered => StatusMapped(Val(reply), outcome)

\* the kinds the adapter of the completed operation raises for a status
\* outside 2xx and for a network error
TransportKinds ==
    { Adapter_call(heap[op.id], op.call, rep).outcome.kind :
        rep \in { NetReply("error"),
                  HttpReply(404, "notjson", FALSE, None, "missing", None),
                  HttpReply(500, "notjson", FALSE, None, "oops", None) } }

\* a 2xx response whose body is not JSON or does not fit the envelope
Malformed(rep) == Is2xx(rep) /\ (rep.body # "object" \/ ~rep.valid)

\* C22: on both adapters a 2xx response that is not JSON or fails schema
\* validation raises a kind other than the one raised for a non-2xx
\* status or a network error
C22_MalformedDistinguishable ==
    (AdapterOperated /\ ~IsNone(reply) /\ Malformed(Val(reply))) =>
        /\ ~outcome.ok
        /\ outcome.kind \notin TransportKinds

\* an adapter operation completed outside the adapter's "async with"
OutsideBlock ==
    /\ AdapterOperated
    /\ heap[op.id].client.conn # "open"

NotInitialized ==
    /\ ~outcome.ok
    /\ outcome.kind = "RuntimeError"
    /\ outcome.msg = NotInitializedMsg

\* C23 as claimed: every adapter operation outside the block raises the
\* RuntimeError "Client not initialized" and sends no request
C23_OutsideBlockNotInitialized ==
    OutsideBlock => (NotInitialized /\ requests = << >>)

\* C23 amended: outside the block every adapter operation fails and sends
\* no request; it raises the RuntimeError "Client not initialized", except
\* get_all_with_pos of an OpenAPIAdapter, which raises
\* UnsupportedOperationError as it does inside the block
C23_OutsideBlockFails ==
    OutsideBlock =>
        /\ requests = << >>
        /\ IsNone(reply)
        /\ IF AllWithPosOnOpenAPI
           THEN ~outcome.ok /\ outcome.kind = "UnsupportedOperationError"
           ELSE NotInitialized

\* a box search on an OpenAPIAdapter that was entered and exited
C23_Witness ==
    /\ OutsideBlock
    /\ heap[op.id].kind = "openapi"
    /\ heap[op.id].closed = 1
    /\ op.call.name = "get_in_box"
    /\ NotInitialized

\* a lookup on a ReAPIAdapter that was never entered
C23_WitnessBeforeEntry ==
    /\ OutsideBlock
    /\ heap[op.id].kind = "reapi"
    /\ heap[op.id].created = 0
    /\ op.call.name = "get_by_hex"
    /\ NotInitialized

(***************************************************************************)
(* Properties of two SkySnoop objects                                      *)
(***************************************************************************)
\* the adapters the other object holds (none or one)
PeerAdapters ==
    IF IsNone(peer) \/ IsNone(Val(Val(peer).facade)._adapter) THEN { }
    ELSE { Val(Val(Val(peer).facade)._adapter) }
OwnAdapters ==
    IF IsNone(facade) \/ IsNone(Val(facade)._adapter) THEN { }
    ELSE { Val(Val(facade)._adapter) }

\* the two objects hold different adapters, each of its own backend
C24_State ==
    ~IsNone(peer) =>
        /\ OwnAdapters \cap PeerAdapters = { }
        /\ \A i \in OwnAdapters : heap[i].kind = Val(facade).backend_type
        /\ \A i \in PeerAdapters : heap[i].kind = Val(Val(peer).facade).backend_type

\* entering, operating on or exiting the object addressed leaves the other
\* object and its adapter as they are; turning to the other object changes
\* no adapter
C24_Step ==
    ~IsNone(peer) =>
        IF peer' = peer
        THEN \A i \in PeerAdapters : heap'[i] = heap[i]
        ELSE /\ heap' = heap
             /\ facade' = Val(peer).facade
             /\ Val(peer').facade = facade

\* C24: two SkySnoop objects used in interleaved scopes hold distinct
\* adapters, each of its own backend type, and no entry, operation or exit
\* of one changes the other's adapter, backend type or connection
C24_NoSharedState == [] C24_State /\ [][C24_Step]_vars

\* one object has just exited while the other's adapter stays open
C24_Witness ==
    /\ ~IsNone(peer)
    /\ op.target = "facade"
    /\ op.call.name = "__aexit__"
    /\ ~IsNone(op.call.args.adapter)
    /\ heap[Val(op.call.args.adapter)].client.conn = "none"
    /\ PeerAdapters # { }
    /\ \A i \in PeerAdapters : heap[i].client.conn = "open"

\* an operation returned on one object while both hold open adapters of
\* the same backend
C24_WitnessBothOpen ==
    /\ FacadeOperated
    /\ outcome.ok
    /\ OwnAdapters # { }
    /\ PeerAdapters # { }
    /\ Val(facade).backend_type = Val(Val(peer).facade).backend_type
    /\ \A i \in OwnAdapters \cup PeerAdapters : heap[i].client.conn = "open"

\* a box search of an OpenAPIAdapter, for a box whose south bound does not
\* exceed its north bound, has sent its radius search
BoxSearchSent ==
    /\ op.target = "adapter"
    /\ op.call.name = "get_in_box"
    /\ heap[op.id].kind = "openapi"
    /\ requests # << >>
    /\ op.call.args.lat_south <= op.call.args.lat_north
RequestedBox ==
    Box(op.call.args.lat_south, op.call.args.lat_north,
        op.call.args.lon_west, op.call.args.lon_east)
\* the radius of the search sent, in nautical miles
SentRadius == IntTrunc(BoundingRadius(op.call.args), 10000)

\* C25: the radius search a Backend B box search sends is centred on the
\* midpoints of the box, and its radius, as sent, reaches every corner of
\* the box, so that the circle contains the box (a corner counts as
\* reached up to one nautical mile beyond the radius, which is more than
\* the fixed-point distances are off by)
C25_BoundingCircleCoversBox ==
    BoxSearchSent =>
        /\ requests[1].url =
              heap[op.id].client.base_url
              \o V2GeoPath("point", CenterLat(RequestedBox), CenterLon(RequestedBox),
                           SentRadius)
        /\ \A c \in BoxCorners(RequestedBox) :
              CornerReach[RequestedBox][c] <= SentRadius * 1000 + 1000

\* the latitude and longitude segments of the path /v2/point/lat/lon/radius
SentLat == requests[1].url[Len(requests[1].url) - 4]
SentLon == requests[1].url[Len(requests[1].url) - 2]

\* C26: the centre of the radius search a Backend B box search sends lies in
\* the requested box, for ordinary boxes and for boxes across the
\* antimeridian
C26_CenterInBox ==
    BoxSearchSent =>
        /\ SentLat = HdStr(CenterLat(RequestedBox))
        /\ SentLon = HdStr(CenterLon(RequestedBox))
        /\ PointInBox(Some(CenterLat(RequestedBox)), Some(CenterLon(RequestedBox)),
                      op.call.args.lat_south, op.call.args.lat_north,
                      op.call.args.lon_west, op.call.args.lon_east)

\* a radius search of an OpenAPIAdapter has sent its request
CircleSearchSent ==
    /\ op.target = "adapter"
    /\ op.call.name \in { "get_in_circle", "get_closest" }
    /\ heap[op.id].kind = "openapi"
    /\ requests # << >>
SentEndpoint == requests[1].url[Len(requests[1].url) - 6]
SentRadiusText == requests[1].url[Len(requests[1].url)]
\* the whole numbers of nautical miles a radius search may carry
SentRadii == -60..60
\* r is the radius requested, given in tenths, truncated toward zero
TruncatedTowardZero(r, requested) ==
    /\ Abs(10 * r) <= Abs(requested)
    /\ Abs(requested) - Abs(10 * r) < 10
    /\ r # 0 => (r > 0 <=> requested > 0)
\* the request of a radius search carries the caller's latitude and
\* longitude and the caller's radius truncated toward zero
CircleForwarded ==
    /\ SentEndpoint = (IF op.call.name = "get_in_circle" THEN "point" ELSE "closest")
    /\ SentLat = HdStr(op.call.args.lat)
    /\ SentLon = HdStr(op.call.args.lon)
    /\ \E r \in SentRadii :
          /\ SentRadiusText = ToString(r)
          /\ TruncatedTowardZero(r, op.call.args.radius)
\* the request of a box search carries the covering radius truncated
BoxRadiusForwarded ==
    \E r \in { SentRadius } :
        /\ SentRadiusText = ToString(r)
        /\ 10000 * r <= BoundingRadius(op.call.args)
        /\ BoundingRadius(op.call.args) - 10000 * r < 10000

C27_WitnessNegative ==
    /\ CircleSearchSent
    /\ op.call.name = "get_in_circle"
    /\ op.call.args.radius = -37
    /\ SentRadiusText = "-3"

\* get_in_box sent its covering radius
C27_WitnessBox ==
    /\ BoxSearchSent
    /\ SentRadiusText = "456"

\* the facade holds an adapter
HoldsAdapter == ~IsNone(facade) /\ ~IsNone(Val(facade)._adapter)

\* C28: as long as no entry is nested in another, the facade holds an
\* adapter exactly while its block is active, also after an entry whose
\* acquisition failed and after an exit whose release failed, and an
\* operation invoked outside the block is refused with RuntimeError
\* without reaching a backend
C28_AdapterIffActive ==
    (~IsNone(facade) /\ ~scope.nested) =>
        /\ HoldsAdapter <=> scope.depth > 0
        /\ (FacadeOperated /\ scope.depth = 0) =>
              /\ ~outcome.ok
              /\ outcome.kind = "RuntimeError"
              /\ outcome.msg = AdapterRequiredMsg
              /\ calls = << >>
              /\ requests = << >>

\* C29: on one facade, once every entry has been matched by an exit, the
\* connection of every adapter the facade instantiated is released, and
\* while a block is still active the facade holds an adapter whose
\* connection is open, whatever other blocks were entered and exited
C29_ScopesOwnTheirAdapter ==
    ~IsNone(facade) =>
        /\ scope.depth = 0 =>
              \A i \in DOMAIN heap :
                  heap[i].client.conn = "none" /\ heap[i].closed = heap[i].created
        /\ scope.depth > 0 =>
              /\ HoldsAdapter
              /\ heap[Val(Val(facade)._adapter)].client.conn = "open"

\* the step is an entry of the facade's block
EntryStep ==
    /\ op = Idle
    /\ op'.target = "facade"
    /\ op'.call.name = "__aenter__"
    /\ outcome'.ok

\* entries, exits and operations leave the configuration alone, and an
\* entry instantiates one new adapter of the facade's backend, opens its
\* connection and leaves the adapters instantiated before as they are
C30_Step ==
    ~IsNone(facade) =>
        /\ ~IsNone(facade')
        /\ [f \in { "backend_type", "_api_key", "_base_url", "_timeout" } |->
               Val(facade')[f]]
             = [f \in { "backend_type", "_api_key", "_base_url", "_timeout" } |->
                  Val(facade)[f]]
        /\ EntryStep =>
              /\ Len(heap') = Len(heap) + 1
              /\ SubSeq(heap', 1, Len(heap)) = heap
              /\ Val(facade')._adapter = Some(Len(heap'))
              /\ heap'[Len(heap')].kind = Val(facade).backend_type
              /\ heap'[Len(heap')].client.conn = "open"
              /\ heap'[Len(heap')].created = 1
              /\ heap'[Len(heap')].closed = 0

\* an operation invoked after the latest entry is handed to the adapter
\* held, whose connection is open, and succeeds when the backend answers
\* with a valid response
C30_State ==
    (FacadeOperated /\ scope.active) =>
        /\ HoldsAdapter
        /\ heap[Val(Val(facade)._adapter)].client.conn = "open"
        /\ Len(calls) = 1
        /\ calls[1].adapter = Val(Val(facade)._adapter)
        /\ ~(outcome.kind = "RuntimeError")
        /\ (~IsNone(reply) /\ Val(reply).valid) => outcome.ok

\* C30: entry, exit and every operation of the facade, successful or
\* failing, leave backend_type, API key, base URL and timeout unchanged;
\* entering again after an exit instantiates a fresh adapter of the same
\* backend, and operations work again
C30_ReentryRestores == [] C30_State /\ [][C30_Step]_vars

\* after an entry, an exit and a second entry, an operation returned a
\* result through the second adapter, the first one being closed
C30_Witness ==
    /\ FacadeOperated
    /\ scope.depth = 1
    /\ ~scope.nested
    /\ Len(heap) = 2
    /\ heap[1].client.conn = "none"
    /\ Val(facade)._adapter = Some(2)
    /\ heap[2].kind = heap[1].kind
    /\ requests # << >>
    /\ outcome.ok

\* an operation failed in the block entered second
C30_WitnessFailing ==
    /\ FacadeOperated
    /\ scope.depth = 1
    /\ ~scope.nested
    /\ Len(heap) = 2
    /\ ~outcome.ok

====
